---- MODULE Spec2Model ----
(***************************************************************************)
(* Travel planning orchestrator: intent parsing, workflow dispatch, the    *)
(* data aggregator's search fan-out, the itinerary agent's stored          *)
(* itinerary and the synthesis of the text response.                       *)
(* A second part models the start-up: the import of config/settings.py,    *)
(* Config.validate, create_agent and the checks of run.py.                 *)
(*                                                                         *)
(* Python values are modelled as follows.                                  *)
(*   - a str that the code inspects character by character (the user       *)
(*     message, destination, duration) is a sequence of one-character      *)
(*     strings;                                                            *)
(*   - None, where a str is expected, is the one-element sequence PyNone;  *)
(*     None, where an int is expected, is NoneInt;                         *)
(*   - a str that the code only builds and passes on (tool output, error   *)
(*     text, response lines) is a sequence of tokens: the literal pieces   *)
(*     of the f-string and the values formatted into it;                   *)
(*   - a dict is a record, a missing key is a field outside its DOMAIN;    *)
(*   - a value whose Python type the code tests (str / dict / Exception)   *)
(*     carries it in a field "kind".                                       *)
(***************************************************************************)
EXTENDS Integers, Sequences, FiniteSets, TLC

VARIABLES
  strict_fields,      \* the agent classes reject attributes that are not declared fields
  current_itinerary,  \* ItineraryPlanningAgent.current_itinerary
  active_workflow,    \* TravelPlanningOrchestrator.active_workflow
  calls,              \* number of calls made on the agent instances so far
  entry,              \* the public method the current call entered through
  pc,                 \* position of the current call
  user_message,       \* argument of process_travel_request
  intent,             \* result of _parse_travel_intent
  workflow,           \* the "steps" of the result of _plan_agent_workflow
  step,               \* index of the workflow step being executed
  results,            \* the results dict of _execute_workflow
  travel_request,     \* argument of aggregate_travel_data
  tasks,              \* the searches issued and awaited at this point
  running,            \* the search that holds the event loop's thread (0: none)
  result_dict,        \* what _execute_parallel_searches returned
  itin_args,          \* arguments of the running create_itinerary
  itin_info,          \* create_itinerary's locals: the tool outputs gathered so far
  outcome,            \* how the current call ended: value returned or exception raised
  pre_itinerary,      \* current_itinerary when the current call began
  step_log,           \* workflow steps started during the current call, in order
  http_log,           \* HTTP requests sent during the current call, in order
  call_args,          \* arguments of the itinerary agent method called directly
  produced,           \* the itinerary the last completed create_itinerary or modify_itinerary returned
  lineage,            \* of that itinerary: the interests it was created with (k) and the
                      \* modifications completed since (n)
  script,             \* the script or module the process was started with
  spc,                \* position of the start-up
  environ,            \* os.environ of the process
  dotenv,             \* the variables the .env file defines
  Config,             \* the attributes of class Config, once its body has run
  validated,          \* how the last Config.validate() ended
  created_agent,      \* how create_agent() ended
  start_log,          \* run.py: the checks made and the program started, in order
  exit_code           \* exit status of the process, once it has ended

vars == << strict_fields, current_itinerary, active_workflow, calls, entry, pc,
           user_message, intent, workflow, step, results, travel_request,
           tasks, running, result_dict, itin_args, itin_info, outcome, pre_itinerary,
           step_log, http_log, call_args, produced, lineage, script, spc, environ, dotenv, Config, validated,
           created_agent, start_log, exit_code >>

\* the state of the agents and of the call in progress
orchestration ==
  << strict_fields, current_itinerary, active_workflow, calls, entry, pc,
     user_message, intent, workflow, step, results, travel_request, tasks,
     running, result_dict, itin_args, itin_info, outcome, pre_itinerary,
     step_log, http_log, call_args, produced, lineage >>

\* the state of the start-up
startup == << script, spc, environ, dotenv, Config, validated, created_agent,
             start_log, exit_code >>

(***************************************************************************)
(* Bounds of the model.                                                    *)
(***************************************************************************)
MaxCalls == 2

MaxFrags == 2

MaxItinCalls == 3

(***************************************************************************)
(* Characters and strings.                                                 *)
(***************************************************************************)
PyNone == << "None" >>

NoneInt == 0 - 1

UpperLetters ==
  << "A","B","C","D","E","F","G","H","I","J","K","L","M",
     "N","O","P","Q","R","S","T","U","V","W","X","Y","Z" >>

LowerLetters ==
  << "a","b","c","d","e","f","g","h","i","j","k","l","m",
     "n","o","p","q","r","s","t","u","v","w","x","y","z" >>

Digits == << "0","1","2","3","4","5","6","7","8","9" >>

Range(s) == { s[i] : i \in DOMAIN s }

IsUpper(c) == c \in Range(UpperLetters)

IsLower(c) == c \in Range(LowerLetters)

IsDigit(c) == c \in Range(Digits)

IsSpace(c) == c = " "

LowerChar(c) ==
  IF IsUpper(c)
    THEN LowerLetters[CHOOSE i \in DOMAIN UpperLetters : UpperLetters[i] = c]
    ELSE c

UpperChar(c) ==
  IF IsLower(c)
    THEN UpperLetters[CHOOSE i \in DOMAIN LowerLetters : LowerLetters[i] = c]
    ELSE c

\* str.lower()
Lower(s) == [i \in DOMAIN s |-> LowerChar(s[i])]

\* str.title(): a letter is upper-cased when it starts the string or follows
\* a character that is not a letter, and lower-cased otherwise
Title(s) ==
  [i \in DOMAIN s |->
     IF i = 1 \/ ~(IsUpper(s[i-1]) \/ IsLower(s[i-1]))
       THEN UpperChar(s[i])
       ELSE LowerChar(s[i])]

\* w occurs in s at offset k (w == s[k+1 .. k+len(w)])
OccursAt(w, s, k) ==
  /\ k + Len(w) <= Len(s)
  /\ \A j \in 1..Len(w) : s[k + j] = w[j]

\* Python's "w in s" on strings
In(w, s) == \E k \in 0..Len(s) : OccursAt(w, s, k)

\* any(word in s for word in words)
AnyIn(words, s) == \E i \in DOMAIN words : In(words[i], s)

\* int() of a run of decimal digits
DigitValue(c) == (CHOOSE i \in DOMAIN Digits : Digits[i] = c) - 1

RECURSIVE ToInt(_)
ToInt(ds) ==
  IF ds = << >> THEN 0
  ELSE 10 * ToInt(SubSeq(ds, 1, Len(ds) - 1)) + DigitValue(ds[Len(ds)])

\* str() of a natural number
RECURSIVE ToStr(_)
ToStr(n) ==
  IF n < 10 THEN << Digits[n + 1] >>
  ELSE ToStr(n \div 10) \o << Digits[(n % 10) + 1] >>

\* end of the longest run of characters satisfying Test that starts at
\* offset k of s (the greedy match of \d+ or \s*)
RECURSIVE RunEnd(_, _, _)
RunEnd(s, k, digits) ==
  IF k < Len(s) /\ (IF digits THEN IsDigit(s[k+1]) ELSE IsSpace(s[k+1]))
    THEN RunEnd(s, k + 1, digits)
    ELSE k

\* re.search(r'(\d+)\s*(u1|u2|...)', s): the offsets at which the pattern
\* matches; the match reported is the one at the least offset
MatchesAt(units, s, k) ==
  /\ k < Len(s)
  /\ IsDigit(s[k+1])
  /\ \E i \in DOMAIN units :
       OccursAt(units[i], s, RunEnd(s, RunEnd(s, k, TRUE), FALSE))

HasMatch(units, s) == \E k \in 0..Len(s) : MatchesAt(units, s, k)

FirstMatch(units, s) ==
  CHOOSE k \in 0..Len(s) :
    /\ MatchesAt(units, s, k)
    /\ \A j \in 0..(k-1) : ~MatchesAt(units, s, j)

\* group(1) of the match: the digits
MatchDigits(units, s) ==
  LET k == FirstMatch(units, s)
  IN  SubSeq(s, k + 1, RunEnd(s, k, TRUE))

\* group(2) of the match: the first alternative, in the order written, that
\* matches after the digits and the white space
MatchUnit(units, s) ==
  LET k == FirstMatch(units, s)
      u == RunEnd(s, RunEnd(s, k, TRUE), FALSE)
  IN  units[CHOOSE i \in DOMAIN units :
              /\ OccursAt(units[i], s, u)
              /\ \A j \in 1..(i-1) : ~OccursAt(units[j], s, u)]

(***************************************************************************)
(* The keyword tables of _parse_travel_intent.                             *)
(***************************************************************************)
\* string literals of the source, as character sequences

C_culture == <<"c","u","l","t","u","r","e">>

C_food == <<"f","o","o","d">>

C_adventure == <<"a","d","v","e","n","t","u","r","e">>

C_nightlife == <<"n","i","g","h","t","l","i","f","e">>

C_relaxation == <<"r","e","l","a","x","a","t","i","o","n">>

C_shopping == <<"s","h","o","p","p","i","n","g">>

C_nature == <<"n","a","t","u","r","e">>

C_sightseeing == <<"s","i","g","h","t","s","e","e","i","n","g">>

B_budget == <<"b","u","d","g","e","t">>

B_luxury == <<"l","u","x","u","r","y">>

B_mid_range == <<"m","i","d","-","r","a","n","g","e">>

W_flight == <<"f","l","i","g","h","t">>

W_hotel == <<"h","o","t","e","l">>

W_activities == <<"a","c","t","i","v","i","t","i","e","s">>

W_things_to_do == <<"t","h","i","n","g","s"," ","t","o"," ","d","o">>

W_solo == <<"s","o","l","o">>

W_alone == <<"a","l","o","n","e">>

W_week == <<"w","e","e","k">>

W_day == <<"d","a","y">>

W_tourist_attractions == <<"t","o","u","r","i","s","t"," ","a","t","t","r","a","c","t","i","o","n","s">>

W_culture_food == <<"c","u","l","t","u","r","e",",","f","o","o","d">>

W_general_improvements == <<"g","e","n","e","r","a","l"," ","i","m","p","r","o","v","e","m","e","n","t","s">>

W_Unknown == <<"U","n","k","n","o","w","n">>

W_3_days == <<"3"," ","d","a","y","s">>

W_your_trip == <<"y","o","u","r"," ","t","r","i","p">>

W_your_destination == <<"y","o","u","r"," ","d","e","s","t","i","n","a","t","i","o","n">>

W_your_changes == <<"y","o","u","r"," ","c","h","a","n","g","e","s">>

destinations ==
  << <<"t","o","k","y","o">>,
     <<"j","a","p","a","n">>,
     <<"p","a","r","i","s">>,
     <<"f","r","a","n","c","e">>,
     <<"r","o","m","e">>,
     <<"i","t","a","l","y">>,
     <<"b","a","r","c","e","l","o","n","a">>,
     <<"s","p","a","i","n">>,
     <<"l","o","n","d","o","n">>,
     <<"u","k">>,
     <<"n","e","w"," ","y","o","r","k">>,
     <<"n","y","c">>,
     <<"l","o","s"," ","a","n","g","e","l","e","s">>,
     <<"b","a","l","i">>,
     <<"t","h","a","i","l","a","n","d">>,
     <<"a","m","s","t","e","r","d","a","m">>,
     <<"b","e","r","l","i","n">>,
     <<"p","r","a","g","u","e">>,
     <<"v","i","e","n","n","a">>,
     <<"b","u","d","a","p","e","s","t">> >>

plan_words ==
  << <<"p","l","a","n">>,
     <<"t","r","i","p">>,
     <<"i","t","i","n","e","r","a","r","y">>,
     <<"t","r","a","v","e","l">> >>

search_words ==
  << <<"f","i","n","d">>,
     <<"s","e","a","r","c","h">>,
     <<"l","o","o","k">> >>

modify_words ==
  << <<"m","o","d","i","f","y">>,
     <<"c","h","a","n","g","e">>,
     <<"u","p","d","a","t","e">>,
     <<"a","d","d">>,
     <<"r","e","m","o","v","e">> >>

\* the alternatives of (day|days|week|weeks), in the order written
duration_units ==
  << <<"d","a","y">>,
     <<"d","a","y","s">>,
     <<"w","e","e","k">>,
     <<"w","e","e","k","s">> >>

\* the alternatives of (people|person|travelers?|guests?); x? is tried with x first
traveler_units ==
  << <<"p","e","o","p","l","e">>,
     <<"p","e","r","s","o","n">>,
     <<"t","r","a","v","e","l","e","r","s">>,
     <<"t","r","a","v","e","l","e","r">>,
     <<"g","u","e","s","t","s">>,
     <<"g","u","e","s","t">> >>

interest_keywords ==
  << [category |-> C_culture,
      keywords |-> <<<<"c","u","l","t","u","r","e">>,
                    <<"c","u","l","t","u","r","a","l">>,
                    <<"h","i","s","t","o","r","y">>,
                    <<"h","i","s","t","o","r","i","c","a","l">>,
                    <<"m","u","s","e","u","m">>,
                    <<"a","r","t">>>>],
     [category |-> C_food,
      keywords |-> <<<<"f","o","o","d">>,
                    <<"c","u","i","s","i","n","e">>,
                    <<"r","e","s","t","a","u","r","a","n","t">>,
                    <<"d","i","n","i","n","g">>,
                    <<"c","u","l","i","n","a","r","y">>>>],
     [category |-> C_adventure,
      keywords |-> <<<<"a","d","v","e","n","t","u","r","e">>,
                    <<"h","i","k","i","n","g">>,
                    <<"o","u","t","d","o","o","r">>,
                    <<"s","p","o","r","t","s">>,
                    <<"a","c","t","i","v","e">>>>],
     [category |-> C_nightlife,
      keywords |-> <<<<"n","i","g","h","t","l","i","f","e">>,
                    <<"b","a","r","s">>,
                    <<"c","l","u","b","s">>,
                    <<"e","n","t","e","r","t","a","i","n","m","e","n","t">>>>],
     [category |-> C_relaxation,
      keywords |-> <<<<"r","e","l","a","x">>,
                    <<"s","p","a">>,
                    <<"b","e","a","c","h">>,
                    <<"p","e","a","c","e","f","u","l">>,
                    <<"q","u","i","e","t">>>>],
     [category |-> C_shopping,
      keywords |-> <<<<"s","h","o","p","p","i","n","g">>,
                    <<"m","a","r","k","e","t","s">>,
                    <<"s","t","o","r","e","s">>>>],
     [category |-> C_nature,
      keywords |-> <<<<"n","a","t","u","r","e">>,
                    <<"p","a","r","k","s">>,
                    <<"w","i","l","d","l","i","f","e">>,
                    <<"s","c","e","n","e","r","y">>>>] >>

budget_words ==
  << <<"b","u","d","g","e","t">>,
     <<"c","h","e","a","p">>,
     <<"a","f","f","o","r","d","a","b","l","e">> >>

luxury_words ==
  << <<"l","u","x","u","r","y">>,
     <<"h","i","g","h","-","e","n","d">>,
     <<"p","r","e","m","i","u","m">> >>

(***************************************************************************)
(* TravelPlanningOrchestrator._parse_travel_intent                         *)
(***************************************************************************)
\* type: a variant that tests the search keywords before the plan keywords
IntentTypeSearchFirst(m) ==
  IF AnyIn(search_words, m) THEN
       IF In(W_flight, m) THEN "search_flights"
       ELSE IF In(W_hotel, m) THEN "search_hotels"
       ELSE IF In(W_activities, m) \/ In(W_things_to_do, m)
              THEN "search_activities"
       ELSE "general_search"
  ELSE IF AnyIn(plan_words, m) THEN "plan_trip"
  ELSE IF AnyIn(modify_words, m) THEN "modify_plan"
  ELSE "general_inquiry"

\* type: the if/elif chain over the lower-cased message
IntentType(m) ==
  IF AnyIn(plan_words, m) THEN "plan_trip"
  ELSE IF AnyIn(search_words, m) THEN
         IF In(W_flight, m) THEN "search_flights"
         ELSE IF In(W_hotel, m) THEN "search_hotels"
         ELSE IF In(W_activities, m) \/ In(W_things_to_do, m)
                THEN "search_activities"
         ELSE "general_search"
  ELSE IF AnyIn(modify_words, m) THEN "modify_plan"
  ELSE "general_inquiry"

\* destination: a variant that takes the known name occurring earliest in
\* the message
ExtractDestinationByPosition(m) ==
  IF AnyIn(destinations, m)
    THEN LET at(i) == CHOOSE k \in 0..Len(m) :
                        /\ OccursAt(destinations[i], m, k)
                        /\ \A j \in 0..(k-1) : ~OccursAt(destinations[i], m, j)
             hits == { i \in DOMAIN destinations : In(destinations[i], m) }
             best == CHOOSE i \in hits :
                       \A j \in hits : at(i) < at(j) \/ (at(i) = at(j) /\ i <= j)
         IN  Title(destinations[best])
    ELSE PyNone

\* destination: the loop over the list, left at the first name found
ExtractDestination(m) ==
  IF AnyIn(destinations, m)
    THEN Title(destinations[CHOOSE i \in DOMAIN destinations :
                              /\ In(destinations[i], m)
                              /\ \A j \in 1..(i-1) : ~In(destinations[j], m)])
    ELSE PyNone

Plural(num) == IF num > 1 THEN << "s" >> ELSE << >>

ExtractDuration(m) ==
  IF HasMatch(duration_units, m)
    THEN LET num  == ToInt(MatchDigits(duration_units, m))
             unit == MatchUnit(duration_units, m)
         IN  IF In(W_week, unit)
               THEN ToStr(num) \o << " " >> \o W_week \o Plural(num)
               ELSE ToStr(num) \o << " " >> \o W_day \o Plural(num)
    ELSE PyNone

ExtractTravelers(m) ==
  IF HasMatch(traveler_units, m)
    THEN ToInt(MatchDigits(traveler_units, m))
  ELSE IF In(W_solo, m) \/ In(W_alone, m) THEN 1
  ELSE NoneInt

\* the categories, in the order of the table, one of whose keywords occurs
ExtractInterests(m) ==
  LET hit(e) == AnyIn(e.keywords, m)
      picked == SelectSeq(interest_keywords, hit)
  IN  [i \in DOMAIN picked |-> picked[i].category]

ExtractBudget(m) ==
  IF AnyIn(budget_words, m) THEN B_budget
  ELSE IF AnyIn(luxury_words, m) THEN B_luxury
  ELSE B_mid_range

ParseTravelIntent(message) ==
  LET m == Lower(message)
      t == IntentType(m)
  IN  [type                 |-> t,
       destination          |-> ExtractDestination(m),
       origin               |-> PyNone,
       duration             |-> ExtractDuration(m),
       travelers            |-> ExtractTravelers(m),
       interests            |-> ExtractInterests(m),
       budget               |-> ExtractBudget(m),
       dates                |-> << >>,
       special_requirements |-> << >>,
       modification         |-> (t = "modify_plan")]

(***************************************************************************)
(* User messages: fragments joined by single spaces.                       *)
(***************************************************************************)
F_Plan == <<"P","l","a","n">>

F_find == <<"f","i","n","d">>

F_flight == <<"f","l","i","g","h","t">>

F_hotel == <<"h","o","t","e","l">>

F_change == <<"c","h","a","n","g","e">>

F_Paris == <<"P","a","r","i","s">>

F_TOKYO == <<"T","O","K","Y","O">>

F_ukraine == <<"u","k","r","a","i","n","e">>

F_3_days == <<"3"," ","d","a","y","s">>

F_1_week == <<"1"," ","w","e","e","k">>

F_2_travelers == <<"2"," ","t","r","a","v","e","l","e","r","s">>

F_solo == <<"s","o","l","o">>

F_art == <<"a","r","t">>

F_hello == <<"h","e","l","l","o">>

F_things_to_do == <<"t","h","i","n","g","s"," ","t","o"," ","d","o">>

Fragments ==
  << F_Plan, F_find, F_flight, F_hotel, F_change, F_Paris, F_TOKYO, F_ukraine, F_3_days, F_1_week, F_2_travelers, F_solo, F_art, F_hello, F_things_to_do >>

V_Delhi == <<"D","e","l","h","i">>

V_Jun1 == <<"J","u","n"," ","1">>

V_Jun8 == <<"J","u","n"," ","8">>

V_Paris == <<"P","a","r","i","s">>

V_None == <<"N","o","n","e">>


\* fragments joined by single spaces
RECURSIVE Join(_)
Join(fs) ==
  IF fs = << >> THEN << >>
  ELSE IF Len(fs) = 1 THEN fs[1]
  ELSE fs[1] \o << " " >> \o Join(Tail(fs))

SeqsUpTo(S, n) == UNION { [1..k -> S] : k \in 1..n }

\* the messages _parse_travel_intent is applied to
ParseMessages == { Join(fs) : fs \in SeqsUpTo(Range(Fragments), MaxFrags) }

(***************************************************************************)
(* Python values.                                                          *)
(***************************************************************************)
\* pieces of a built string: a literal, a formatted str, a formatted int
Lit(s) == [lit |-> s]

Chars(cs) == [chars |-> cs]

Num(n) == [int |-> n]

\* the empty dict
EmptyDict == << >>

\* d.get(k, default)
Get(d, k, default) == IF k \in DOMAIN d THEN d[k] ELSE default

\* d[k] = v
Put(d, k, v) == [x \in (DOMAIN d) \cup {k} |-> IF x = k THEN v ELSE d[x]]

\* truth value of an optional str
Truthy(x) == x # PyNone /\ x # << >>

\* f"{x}" of an optional str
Format(x) == IF x = PyNone THEN V_None ELSE x

\* f"{n}" of an optional int
FormatInt(n) == IF n = NoneInt THEN V_None ELSE ToStr(n)

\* ",".join(xs)
RECURSIVE JoinComma(_)
JoinComma(xs) ==
  IF xs = << >> THEN << >>
  ELSE IF Len(xs) = 1 THEN xs[1]
  ELSE xs[1] \o << "," >> \o JoinComma(Tail(xs))

Returned(v) == [kind |-> "returned", value |-> v]

Raised(type, text) == [kind |-> "raised", type |-> type, text |-> text]

(***************************************************************************)
(* tools/__init__.py: the search tools.  What the search API answers is    *)
(* the environment's choice: "ok" (a result page of the expected shape),   *)
(* "neterr" (requests.get, raise_for_status or json() raises) or           *)
(* "badshape" (a page whose entries lack the expected str fields, on       *)
(* which the formatting loop of execute raises).                           *)
(***************************************************************************)
Outcomes == { "ok", "neterr", "badshape" }

NetErrText == "HTTPSConnectionPool: Max retries exceeded"

ShapeErrText == "'NoneType' object is not subscriptable"

StrGetErrText == "'str' object has no attribute 'get'"

NoneReErrText == "expected string or bytes-like object"

NoneCmpErrText == "'>' not supported between instances of 'NoneType' and 'int'"

NoFieldErrText == "object has no field active_workflow"

\* SerpApiSearchTool._make_search_request: the dict it returns
MakeSearchRequest(o) ==
  IF o = "neterr"
    THEN [error |-> NetErrText, organic_results |-> "empty"]
    ELSE [organic_results |-> o]

\* HTTP requests sent by one _make_search_request that sent its request and
\* got answer o: a variant that sends the request again after a failure
RequestsSentRetrying(o) == IF o = "neterr" THEN 2 ELSE 1

\* HTTP requests sent by one _make_search_request that sent its request and
\* got answer o: the except clause returns, the request is not repeated
RequestsSent(o) == 1

ErrorPrefix(tool) ==
  CASE tool = "flights"          -> "Error searching flights: "
    [] tool = "hotels"           -> "Error searching hotels: "
    [] tool = "activities"       -> "Error searching activities: "
    [] tool = "destination_info" -> "Error getting destination info: "
    [] tool = "travel_tips"      -> "Error getting travel tips: "

FoundPrefix(tool) ==
  CASE tool = "flights"          -> "Found flight options for "
    [] tool = "hotels"           -> "Found hotel options in "
    [] tool = "activities"       -> "Found activities in "
    [] tool = "destination_info" -> "Here's information about "
    [] tool = "travel_tips"      -> "Travel tips for "

ErrorPrefixes ==
  { ErrorPrefix(t) : t \in { "flights", "hotels", "activities",
                             "destination_info", "travel_tips" } }

\* value.startswith("Error") for a built string
StartsWithError(text) ==
  /\ text # << >>
  /\ "lit" \in DOMAIN text[1]
  /\ text[1].lit \in ErrorPrefixes

\* the query string of each tool, as the values formatted into it
FlightQuery(origin, destination, departure_date, return_date) ==
  [tool |-> "flights",
   args |-> << Format(origin), Format(destination), Format(departure_date) >>
            \o (IF Truthy(return_date) THEN << return_date >> ELSE << >>)]

HotelQuery(destination, check_in, check_out, guests) ==
  [tool |-> "hotels",
   args |-> << Format(destination), Format(check_in), Format(check_out),
               FormatInt(guests) >>]

ActivityQuery(destination, interests) ==
  [tool |-> "activities",
   args |-> << Format(destination),
               IF Truthy(interests) THEN interests ELSE W_tourist_attractions >>]

DestinationQuery(destination, context) ==
  [tool |-> "destination_info",
   args |-> << Format(destination), Format(context) >>]

TipsQuery(destination, travel_type) ==
  [tool |-> "travel_tips",
   args |-> << Format(destination), Format(travel_type) >>]

\* <Tool>.execute after _make_search_request returned data: the str it
\* returns, or the exception that leaves it
Execute(query, data) ==
  IF "error" \in DOMAIN data
    THEN [kind |-> "str",
          text |-> << Lit(ErrorPrefix(query.tool)), Lit(data.error) >>]
  ELSE IF data.organic_results = "badshape"
    THEN [kind |-> "exc", text |-> << Lit(ShapeErrText) >>]
  ELSE [kind |-> "str",
        text |-> << Lit(FoundPrefix(query.tool)), Chars(query.args[1]) >>]

\* a coroutine <Tool>.execute(...) that has not run yet
Task(name, query) ==
  [name |-> name, query |-> query, state |-> "ready", sent |-> 0,
   answer |-> "none", result |-> [kind |-> "none"]]

(***************************************************************************)
(* agents/data_aggregator.py                                               *)
(***************************************************************************)
\* _analyze_data_needs: a variant that never asks for hotels
AnalyzeDataNeedsNoHotels(request) ==
  [flights          |-> /\ Truthy(Get(request, "origin", PyNone))
                        /\ Truthy(Get(request, "departure_date", PyNone)),
   hotels           |-> FALSE,
   activities       |-> TRUE,
   destination_info |-> TRUE]

\* _analyze_data_needs
AnalyzeDataNeeds(request) ==
  [flights          |-> /\ Truthy(Get(request, "origin", PyNone))
                        /\ Truthy(Get(request, "departure_date", PyNone)),
   hotels           |-> /\ Truthy(Get(request, "check_in", PyNone))
                        /\ Truthy(Get(request, "check_out", PyNone)),
   activities       |-> TRUE,
   destination_info |-> TRUE]

\* _execute_parallel_searches: the tasks and task_names lists it prepares
PrepareTasks(request, needs) ==
  LET destination    == Get(request, "destination", PyNone)
      origin         == Get(request, "origin", PyNone)
      departure_date == Get(request, "departure_date", PyNone)
      return_date    == Get(request, "return_date", PyNone)
      check_in       == Get(request, "check_in", PyNone)
      check_out      == Get(request, "check_out", PyNone)
      travelers      == Get(request, "travelers", 2)
      interests      == Get(request, "interests", << >>)
  IN  (IF needs.flights /\ Truthy(origin) /\ Truthy(departure_date)
         THEN << Task("flights",
                      FlightQuery(origin, destination, departure_date, return_date)) >>
         ELSE << >>)
      \o
      (IF needs.hotels /\ Truthy(check_in) /\ Truthy(check_out)
         THEN << Task("hotels",
                      HotelQuery(destination, check_in, check_out, travelers)) >>
         ELSE << >>)
      \o
      (IF needs.activities
         THEN << Task("activities", ActivityQuery(destination, interests)) >>
         ELSE << >>)
      \o
      (IF needs.destination_info
         THEN << Task("destination_info", DestinationQuery(destination, interests)) >>
         ELSE << >>)

\* asyncio.gather: a variant whose future resolves with the first finished
\* task
GatherDoneFirst(ts) == \E i \in DOMAIN ts : ts[i].state = "done"

\* asyncio.gather(*tasks, return_exceptions=True): its future resolves when
\* every task has finished
GatherDone(ts) == \A i \in DOMAIN ts : ts[i].state = "done"

\* the entry of result_dict for one gathered result
ResultEntry(result) ==
  IF result.kind = "exc"
    THEN [error |-> result.text]
    ELSE [data |-> result, success |-> TRUE]

\* the index into results paired with task_names[i]: a variant that pairs
\* each name with the result of the task before it
ZipIndexShifted(ts, i) == IF i = 1 THEN Len(ts) ELSE i - 1

\* the index into results paired with task_names[i] by zip
ZipIndex(ts, i) == i

\* _execute_parallel_searches: the dict it returns once gather has resolved
ResultDict(ts) ==
  LET finished == { i \in DOMAIN ts : ts[i].state = "done" }
      idx(n)   == CHOOSE i \in finished : ts[i].name = n
  IN  IF ts = << >>
        THEN [message |-> [kind |-> "str",
                           text |-> << Lit("No searches were needed based on the request") >>]]
        ELSE [n \in { ts[i].name : i \in finished } |->
                ResultEntry(ts[ZipIndex(ts, idx(n))].result)]

RecommendationKeys == << "flights", "hotels", "activities", "destination_info" >>

RecommendationText(k) ==
  CASE k = "flights"          -> "Flight options are available - book early for better prices"
    [] k = "hotels"           -> "Multiple accommodation options found - compare amenities"
    [] k = "activities"       -> "Great activities available - plan 2-3 per day for best experience"
    [] k = "destination_info" -> "Check local weather and cultural events during your visit"

\* _generate_recommendations: data[k].get("error") is evaluated for the keys
\* present, in the fixed order; .get on a str raises AttributeError
GenerateRecommendations(data) ==
  LET present == SelectSeq(RecommendationKeys, LAMBDA k : k \in DOMAIN data)
      clean(k) == "error" \notin DOMAIN data[k] \/ data[k].error = << >>
      picked  == SelectSeq(present, clean)
  IN  IF \E i \in DOMAIN present : data[present[i]].kind = "str"
        THEN Raised("AttributeError", << Lit(StrGetErrText) >>)
        ELSE Returned([i \in DOMAIN picked |-> Lit(RecommendationText(picked[i]))])

\* _aggregate_results (search_timestamp and the line counts of the summary
\* carry no decision and are left out); result.get on a value of results
\* that is a str raises AttributeError
AggregateResults(rd, request) ==
  LET data == [k \in DOMAIN rd |->
                 IF "success" \in DOMAIN rd[k]
                   THEN rd[k].data
                   ELSE [kind  |-> "dict",
                         error |-> Get(rd[k], "error", << Lit("Unknown error") >>)]]
      recs == GenerateRecommendations(data)
  IN  IF \E k \in DOMAIN rd : "kind" \in DOMAIN rd[k]
        THEN Raised("AttributeError", << Lit(StrGetErrText) >>)
      ELSE IF recs.kind = "raised" THEN recs
      ELSE Returned(
             [destination     |-> Get(request, "destination", PyNone),
              request_summary |-> [travelers |-> Get(request, "travelers", 2),
                                   interests |-> Get(request, "interests", << >>),
                                   budget    |-> Get(request, "budget", B_mid_range)],
              data            |-> data,
              summary         |-> [k \in { x \in DOMAIN rd : "success" \in DOMAIN rd[x] }
                                     |-> [data_type |-> k]],
              recommendations |-> recs.value])

(***************************************************************************)
(* agents/itinerary_agent.py                                               *)
(***************************************************************************)
\* re.search(r'(\d+)', duration): the first run of digits, if any
HasDigits(s) == \E k \in DOMAIN s : IsDigit(s[k])

FirstDigits(s) ==
  LET k == CHOOSE i \in DOMAIN s :
             IsDigit(s[i]) /\ \A j \in 1..(i-1) : ~IsDigit(s[j])
  IN  SubSeq(s, k, RunEnd(s, k - 1, TRUE))

NumDays(duration) == IF HasDigits(duration) THEN ToInt(FirstDigits(duration)) ELSE 3

\* _get_day_theme
DayTheme(day, interests) ==
  LET its == IF interests = << >>
               THEN << C_culture, C_food, C_sightseeing >>
               ELSE interests
  IN  Title(its[((day - 1) % Len(its)) + 1])

\* _generate_daily_plan (the three activities of a day are fixed texts of
\* the destination and the day number)
GenerateDailyPlan(num_days, interests) ==
  [d \in 1..num_days |-> [day |-> d, theme |-> DayTheme(d, interests)]]

\* the three searches of create_itinerary, in the order awaited
ItinerarySearch(k, args) ==
  LET interests_str == IF args.interests # << >>
                         THEN JoinComma(args.interests)
                         ELSE W_culture_food
  IN  CASE k = 1 -> Task("destination_info",
                         DestinationQuery(args.destination, args.budget))
        [] k = 2 -> Task("activities",
                         ActivityQuery(args.destination, interests_str))
        [] k = 3 -> Task("travel_tips",
                         TipsQuery(args.destination, args.budget))

\* create_itinerary: the itinerary dict (created_at is left out)
BuildItinerary(args, info) ==
  [destination          |-> args.destination,
   duration             |-> args.duration,
   num_days             |-> NumDays(args.duration),
   travelers            |-> args.travelers,
   budget               |-> args.budget,
   interests            |-> args.interests,
   special_requirements |-> EmptyDict,
   destination_overview |-> info[1],
   activities           |-> info[2],
   travel_tips          |-> info[3],
   daily_plan           |-> GenerateDailyPlan(NumDays(args.duration), args.interests)]

\* modify_itinerary: a variant that puts the change text in place of the
\* interests
ModifyArgsReplacing(itinerary, changes) ==
  [destination |-> itinerary.destination,
   duration    |-> itinerary.duration,
   travelers   |-> itinerary.travelers,
   interests   |-> << changes >>,
   budget      |-> itinerary.budget,
   changes     |-> changes]

\* modify_itinerary: the arguments it passes to create_itinerary
ModifyArgs(itinerary, changes) ==
  [destination |-> itinerary.destination,
   duration    |-> itinerary.duration,
   travelers   |-> itinerary.travelers,
   interests   |-> Append(Get(itinerary, "interests", << >>), changes),
   budget      |-> itinerary.budget,
   changes     |-> changes]

\* what create_itinerary leaves in self.current_itinerary: a variant that
\* keeps the itinerary in a local only
StoredItineraryUnstored(old, itinerary) == old

\* what create_itinerary leaves in self.current_itinerary
StoredItinerary(old, itinerary) == itinerary

(***************************************************************************)
(* agents/orchestrator.py                                                  *)
(***************************************************************************)
\* the intent dict before the message is looked at
InitialIntent ==
  [type                 |-> "unknown",
   destination          |-> PyNone,
   origin               |-> PyNone,
   duration             |-> PyNone,
   travelers            |-> NoneInt,
   interests            |-> << >>,
   budget               |-> PyNone,
   dates                |-> << >>,
   special_requirements |-> << >>,
   modification         |-> FALSE]

SearchIntents == { "search_flights", "search_hotels", "search_activities" }

\* intent_type.split('_')[1]
SplitUnderscore1(t) ==
  CASE t = "search_flights"    -> "flights"
    [] t = "search_hotels"     -> "hotels"
    [] t = "search_activities" -> "activities"
    [] t = "general_search"    -> "search"

\* f"search_{x}"
SearchTaskName(x) ==
  CASE x = "flights"    -> "search_flights"
    [] x = "hotels"     -> "search_hotels"
    [] x = "activities" -> "search_activities"

\* task.startswith("search_"), for the task names the workflows hold
StartsWithSearch(task) ==
  task \in { "search_flights", "search_hotels", "search_activities" }

Step(agent, task) == [agent |-> agent, task |-> task]

\* _plan_agent_workflow: workflow["steps"]
PlanSteps(intent_type) ==
  IF intent_type = "plan_trip"
    THEN << Step("data_aggregator", "gather_destination_data"),
            Step("itinerary_agent", "create_itinerary"),
            Step("orchestrator", "synthesize_plan") >>
  ELSE IF intent_type \in SearchIntents
    THEN << Step("data_aggregator", SearchTaskName(SplitUnderscore1(intent_type))) >>
  ELSE IF intent_type = "modify_plan"
    THEN << Step("itinerary_agent", "modify_existing") >>
  ELSE << Step("data_aggregator", "general_search") >>

\* _execute_workflow: the results dict it starts from
InitialResults ==
  [workflow_results |-> << >>, agent_outputs |-> EmptyDict, status |-> "success"]

\* _execute_workflow: the bookkeeping after a step returned result
RecordStep(res, st, result) ==
  [res EXCEPT !.agent_outputs = Put(@, st.agent, result),
              !.workflow_results =
                 Append(@, [agent |-> st.agent, task |-> st.task, result |-> result])]

\* _execute_workflow: an except clause that starts the results over
WorkflowErrorDropping(res, text) ==
  [workflow_results |-> << >>, agent_outputs |-> EmptyDict,
   status |-> "error", error |-> text]

\* _execute_workflow: the except clause
WorkflowError(res, text) ==
  [x \in (DOMAIN res) \cup { "error" } |->
     IF x = "status" THEN "error" ELSE IF x = "error" THEN text ELSE res[x]]

\* _coordinate_data_aggregator: the travel_request built for the task
BuildTravelRequest(task, it) ==
  IF task = "gather_destination_data"
    THEN [destination |-> it.destination,
          origin      |-> it.origin,
          travelers   |-> it.travelers,
          interests   |-> JoinComma(it.interests),
          budget      |-> it.budget]
  ELSE IF task = "search_flights"
    THEN [destination    |-> it.destination,
          origin         |-> it.origin,
          departure_date |-> Get(it.dates, "departure", << >>),
          return_date    |-> Get(it.dates, "return", PyNone)]
  ELSE [destination |-> it.destination,
        interests   |-> JoinComma(it.interests)]

\* _coordinate_itinerary_agent: the arguments of create_itinerary; every
\* key is present in the intent dict, so no default of .get applies
CreateArgs(it) ==
  [destination |-> Get(it, "destination", W_Unknown),
   duration    |-> Get(it, "duration", W_3_days),
   travelers   |-> Get(it, "travelers", 2),
   interests   |-> Get(it, "interests", << >>),
   budget      |-> Get(it, "budget", B_mid_range)]

\* the key under which _coordinate_self_task looks up the itinerary: a
\* variant that uses the agent's registered name
ItineraryOutputKeyByName == "itinerary_planner"

\* the key under which _coordinate_self_task looks up the itinerary
ItineraryOutputKey == "itinerary_agent"

\* truth value of a dict, as in "x and ..."
DictTruthy(d) == DOMAIN d # {}

\* x.get("error") is truthy
HasError(d) == "error" \in DOMAIN d /\ d.error # << >>

\* _generate_final_recommendations
GenerateFinalRecommendations(data_result, itinerary_result) ==
  (IF DictTruthy(itinerary_result) /\ ~HasError(itinerary_result)
     THEN << Lit("Detailed itinerary created with daily activities") >>
     ELSE << >>)
  \o
  (IF DictTruthy(data_result) THEN Get(data_result, "recommendations", << >>)
     ELSE << >>)
  \o
  << Lit("Book accommodations early for better rates"),
     Lit("Download offline maps and translation apps"),
     Lit("Check visa requirements and travel advisories") >>

\* _coordinate_self_task
CoordinateSelfTask(task, it, current_results) ==
  IF task = "synthesize_plan"
    THEN LET data_result == Get(current_results.agent_outputs, "data_aggregator", EmptyDict)
             itinerary_result == Get(current_results.agent_outputs, ItineraryOutputKey, EmptyDict)
         IN  [plan_summary    |-> << Lit("Complete travel plan for "),
                                     Chars(Format(Get(it, "destination", W_your_destination))) >>,
              itinerary       |-> itinerary_result,
              supporting_data |-> data_result,
              recommendations |-> GenerateFinalRecommendations(data_result, itinerary_result)]
    ELSE [error |-> << Lit("Unknown orchestrator task: "), Lit(task) >>]

\* the lines of one day of the itinerary in the response
DayLines(day_plan, destination) ==
  << << Lit("Day "), Num(day_plan.day), Lit(" - "),
        Chars(Get(day_plan, "theme", << >>)), Lit(":") >>,
     << Lit("Morning: Explore "), Chars(Format(destination)),
        Lit(" - Day "), Num(day_plan.day), Lit(" morning activities") >>,
     << Lit("Afternoon: Main attraction visit - Day "), Num(day_plan.day) >>,
     << Lit("Evening: Local dining and culture") >> >>

RECURSIVE ItineraryLines(_, _)
ItineraryLines(days, destination) ==
  IF days = << >> THEN << >>
  ELSE DayLines(days[1], destination) \o ItineraryLines(Tail(days), destination)

\* xs[:n]
Take(xs, n) == SubSeq(xs, 1, IF Len(xs) < n THEN Len(xs) ELSE n)

ApologyLine(text) ==
  << Lit("I apologize, but I encountered an error while processing your request: ") >>
  \o text

ClosingLine ==
  << Lit("Would you like me to provide more details on any specific aspect or make modifications?") >>

\* the lines shown for the values of data_result["data"], in dict order
RECURSIVE FoundLines(_, _)
FoundLines(names, data) ==
  IF names = << >> THEN << >>
  ELSE (IF data[names[1]].kind = "str" /\ ~StartsWithError(data[names[1]].text)
          THEN << data[names[1]].text \o << Lit("...") >> >>
          ELSE << >>)
       \o FoundLines(Tail(names), data)

\* _synthesize_response: the lines joined into the returned str, or the
\* exception that leaves it
SynthesizeResponse(workflow_result, it) ==
  LET destination      == Get(it, "destination", W_your_destination)
      outputs          == workflow_result.agent_outputs
      itinerary_result == Get(outputs, "itinerary_agent", EmptyDict)
      data_result      == Get(outputs, "data_aggregator", EmptyDict)
      shown            == DictTruthy(itinerary_result) /\ ~HasError(itinerary_result)
      travelers        == Get(itinerary_result, "travelers", 2)
      daily_plan       == Get(itinerary_result, "daily_plan", << >>)
      recs             == IF DictTruthy(data_result)
                            THEN Get(data_result, "recommendations", << >>)
                            ELSE << >>
      data             == IF DictTruthy(data_result)
                            THEN Get(data_result, "data", EmptyDict)
                            ELSE EmptyDict
      data_names       == SelectSeq(RecommendationKeys, LAMBDA k : k \in DOMAIN data)
      info             == Get(data, "destination_info", [kind |-> "none"])
  IN  IF workflow_result.status = "error"
        THEN Returned(<< ApologyLine(workflow_result.error) >>)
      ELSE IF it.type = "plan_trip"
        THEN IF shown /\ travelers = NoneInt
               THEN Raised("TypeError", << Lit(NoneCmpErrText) >>)
               ELSE Returned(
                 << << Lit("I've created a comprehensive travel plan for "),
                       Chars(Format(destination)), Lit("!") >> >>
                 \o (IF shown
                       THEN << << Lit("Duration: "),
                                  Chars(Format(Get(itinerary_result, "duration", W_your_trip))),
                                  Lit(" for "), Num(travelers), Lit(" traveler") >>
                               \o (IF travelers > 1 THEN << Lit("s") >> ELSE << >>) >>
                            \o (IF daily_plan # << >>
                                  THEN << << Lit("Your Itinerary:") >> >>
                                       \o ItineraryLines(Take(daily_plan, 3),
                                                         itinerary_result.destination)
                                  ELSE << >>)
                       ELSE << >>)
                 \o (IF recs # << >>
                       THEN << << Lit("Recommendations:") >> >>
                            \o [i \in DOMAIN Take(recs, 3) |-> << recs[i] >>]
                       ELSE << >>)
                 \o << ClosingLine >>)
      ELSE IF it.type \in SearchIntents
        THEN Returned(
               << << Lit("Here's what I found for "), Lit(SplitUnderscore1(it.type)),
                     Lit(" in "), Chars(Format(destination)), Lit(":") >> >>
               \o FoundLines(data_names, data)
               \o << ClosingLine >>)
      ELSE IF it.type = "modify_plan"
        THEN Returned(
               << << Lit("I've updated your travel plan based on your request!") >> >>
               \o (IF shown
                     THEN << << Lit("Modification: "),
                                Chars(Get(itinerary_result, "modification", W_your_changes)) >> >>
                     ELSE << >>)
               \o << ClosingLine >>)
      ELSE Returned(
             << << Lit("Here's information about "), Chars(Format(destination)),
                   Lit(":") >> >>
             \o (IF info.kind = "str"
                   THEN << info.text \o << Lit("...") >> >>
                   ELSE << >>)
             \o << ClosingLine >>)

(***************************************************************************)
(* The calls made on the agents.                                           *)
(***************************************************************************)
\* the user messages given to process_travel_request
UserMessages ==
  { Join(<< F_Plan, F_3_days, F_Paris >>),
    Join(<< F_Plan, F_1_week, F_TOKYO, F_solo, F_art >>),
    Join(<< F_Plan, F_Paris >>),
    Join(<< F_Plan, F_3_days >>),
    Join(<< F_find, F_flight, F_TOKYO >>),
    Join(<< F_find, F_hotel >>),
    Join(<< F_find, F_things_to_do, F_Paris >>),
    Join(<< F_find, F_Paris >>),
    Join(<< F_change, F_hotel >>),
    Join(<< F_hello, F_Paris >>) }

\* the travel_request dicts given to aggregate_travel_data
TravelRequests ==
  { [destination |-> V_Paris],
    [destination |-> V_Paris, origin |-> V_Delhi, departure_date |-> V_Jun1],
    [destination |-> V_Paris, origin |-> << >>, departure_date |-> V_Jun1,
     check_in |-> V_Jun1, check_out |-> V_Jun8, travelers |-> 3],
    [destination |-> V_Paris, origin |-> V_Delhi, check_out |-> V_Jun8],
    [destination |-> V_Paris, origin |-> V_Delhi, departure_date |-> V_Jun1,
     return_date |-> V_Jun8, check_in |-> V_Jun1, check_out |-> V_Jun8,
     interests |-> C_food] }

NoOutcome == [kind |-> "none"]

(***************************************************************************)
(* Start-up: config/settings.py, agent.py, run.py and test_setup.py.  An   *)
(* environment variable is unset (os.getenv gives None), set to the empty  *)
(* string, or set to a key.                                                *)
(***************************************************************************)
EnvNames ==
  { "SERPAPI_KEY", "GOOGLE_API_KEY", "GOOGLE_AI_API_KEY", "OPENAI_API_KEY",
    "GOOGLE_GENAI_API_KEY" }

\* the key a variable has when the environment of the process defines it
EnvKey(name) == << "env", name >>

\* the key a variable has when the .env file defines it
FileKey(name) == << ".env", name >>

\* os.getenv(name)
GetEnv(env, name) == env[name]

\* load_dotenv(): a variable of the file is set unless os.environ has it
LoadDotenv(env, file) ==
  [n \in EnvNames |-> IF env[n] = PyNone THEN file[n] ELSE env[n]]

\* settings.py without the copy of GOOGLE_AI_API_KEY
MirrorGoogleKeyOff(env) == env

\* settings.py: GOOGLE_AI_API_KEY is copied to GOOGLE_API_KEY when that one
\* is not set, and to GOOGLE_GENAI_API_KEY by setdefault
MirrorGoogleKey(env) ==
  IF ~Truthy(GetEnv(env, "GOOGLE_API_KEY")) /\ Truthy(GetEnv(env, "GOOGLE_AI_API_KEY"))
    THEN [env EXCEPT !["GOOGLE_API_KEY"] = env["GOOGLE_AI_API_KEY"],
                     !["GOOGLE_GENAI_API_KEY"] =
                        IF @ = PyNone THEN env["GOOGLE_AI_API_KEY"] ELSE @]
    ELSE env

\* the body of class Config
ClassConfig(env) ==
  [SERPAPI_KEY       |-> GetEnv(env, "SERPAPI_KEY"),
   GOOGLE_API_KEY    |-> GetEnv(env, "GOOGLE_API_KEY"),
   GOOGLE_AI_API_KEY |-> GetEnv(env, "GOOGLE_AI_API_KEY"),
   OPENAI_API_KEY    |-> GetEnv(env, "OPENAI_API_KEY"),
   DEFAULT_MODEL     |-> "gemini-2.5-flash"]

\* class Config before settings.py has been imported
NotLoaded == << >>

\* Config.validate: a variant in which one missing LLM key is reported
MissingEither(cls) ==
  (IF ~Truthy(cls.SERPAPI_KEY) THEN << "SERPAPI_KEY" >> ELSE << >>)
    \o (IF ~Truthy(cls.GOOGLE_API_KEY) \/ ~Truthy(cls.OPENAI_API_KEY)
          THEN << "GOOGLE_API_KEY or OPENAI_API_KEY" >>
          ELSE << >>)

\* Config.validate: the list missing
Missing(cls) ==
  (IF ~Truthy(cls.SERPAPI_KEY) THEN << "SERPAPI_KEY" >> ELSE << >>)
    \o (IF ~Truthy(cls.GOOGLE_API_KEY) /\ ~Truthy(cls.OPENAI_API_KEY)
          THEN << "GOOGLE_API_KEY or OPENAI_API_KEY" >>
          ELSE << >>)

\* ', '.join(xs), as pieces of a built string
RECURSIVE JoinCommaSpace(_)
JoinCommaSpace(xs) ==
  IF xs = << >> THEN << >>
  ELSE IF Len(xs) = 1 THEN << Lit(xs[1]) >>
  ELSE << Lit(xs[1]), Lit(", ") >> \o JoinCommaSpace(Tail(xs))

\* Config.validate
Validate(cls) ==
  IF Missing(cls) # << >>
    THEN Raised("ValueError",
                << Lit("Missing required environment variables: ") >>
                  \o JoinCommaSpace(Missing(cls)))
    ELSE Returned(TRUE)

\* agent.py: create_agent
CreateAgentOutcome(cls) ==
  IF Validate(cls).kind = "raised" THEN Validate(cls) ELSE Returned("root_agent")

\* the environment of a process in which both keys are given
KeysGiven ==
  [n \in EnvNames |-> IF n \in { "SERPAPI_KEY", "GOOGLE_AI_API_KEY" }
                        THEN EnvKey(n)
                        ELSE PyNone]

\* the start-up of agent.py has ended with the root agent
Started ==
  /\ script = "agent.py"
  /\ spc = "ready"
  /\ environ = MirrorGoogleKey(KeysGiven)
  /\ dotenv = [n \in EnvNames |-> PyNone]
  /\ Config = ClassConfig(environ)
  /\ validated = Returned(TRUE)
  /\ created_agent = Returned("root_agent")
  /\ start_log = << >>
  /\ exit_code = NoneInt

Init ==
  /\ Started
  /\ strict_fields \in BOOLEAN
  /\ current_itinerary = EmptyDict
  /\ active_workflow = << >>
  /\ calls = 0
  /\ entry = "none"
  /\ pc = "idle"
  /\ user_message = << >>
  /\ intent = InitialIntent
  /\ workflow = << >>
  /\ step = 1
  /\ results = InitialResults
  /\ travel_request = EmptyDict
  /\ tasks = << >>
  /\ running = 0
  /\ result_dict = EmptyDict
  /\ itin_args = EmptyDict
  /\ itin_info = << >>
  /\ outcome = NoOutcome
  /\ pre_itinerary = EmptyDict
  /\ step_log = << >>
  /\ http_log = << >>
  /\ call_args = EmptyDict
  /\ produced = << >>
  /\ lineage = [k |-> 0, n |-> 0]

\* a call begins: the locals of the previous call are gone
BeginCallUpTo(name, max) ==
  /\ pc \in { "idle", "done" }
  /\ calls < max
  /\ calls' = calls + 1
  /\ entry' = name
  /\ intent' = InitialIntent
  /\ workflow' = << >>
  /\ step' = 1
  /\ results' = InitialResults
  /\ running' = 0
  /\ result_dict' = EmptyDict
  /\ itin_args' = EmptyDict
  /\ itin_info' = << >>
  /\ outcome' = NoOutcome
  /\ pre_itinerary' = current_itinerary
  /\ step_log' = << >>
  /\ http_log' = << >>
  /\ UNCHANGED << startup, produced, lineage >>
  /\ UNCHANGED << strict_fields, current_itinerary, active_workflow >>

BeginCall(name) == BeginCallUpTo(name, MaxCalls)

\* process_travel_request(user_message) is called
CallProcess(msg) ==
  /\ BeginCall("process_travel_request")
  /\ call_args' = EmptyDict
  /\ user_message' = msg
  /\ travel_request' = EmptyDict
  /\ tasks' = << >>
  /\ pc' = "parse"

\* aggregate_travel_data(travel_request) is called: up to the await of
\* asyncio.gather
CallAggregate(req) ==
  /\ BeginCall("aggregate_travel_data")
  /\ call_args' = EmptyDict
  /\ user_message' = << >>
  /\ travel_request' = req
  /\ tasks' = PrepareTasks(req, AnalyzeDataNeeds(req))
  /\ pc' = "gather"

\* _parse_travel_intent
ParseIntent ==
  /\ pc = "parse"
  /\ intent' = ParseTravelIntent(user_message)
  /\ pc' = IF entry = "_parse_travel_intent" THEN "done" ELSE "plan"
  /\ UNCHANGED << startup, call_args, produced, lineage >>
  /\ UNCHANGED << strict_fields, current_itinerary, active_workflow, calls, entry,
                  user_message, workflow, step, results, travel_request, tasks,
                  running, result_dict, itin_args, itin_info, outcome,
                  pre_itinerary, step_log, http_log >>

\* _plan_agent_workflow: the assignment to self.active_workflow raises when
\* the agent class accepts declared fields only, and the exception leaves
\* process_travel_request
PlanWorkflow ==
  /\ pc = "plan"
  /\ workflow' = PlanSteps(intent.type)
  /\ IF strict_fields
       THEN /\ outcome' = Raised("ValueError", << Lit(NoFieldErrText) >>)
            /\ pc' = "done"
            /\ UNCHANGED active_workflow
       ELSE /\ active_workflow' = workflow'
            /\ pc' = "exec"
            /\ UNCHANGED outcome
  /\ UNCHANGED << startup, call_args, produced, lineage >>
  /\ UNCHANGED << strict_fields, current_itinerary, calls, entry, user_message,
                  intent, step, results, travel_request, tasks, running,
                  result_dict, itin_args, itin_info, pre_itinerary, step_log,
                  http_log >>

\* position after the workflow step numbered k - 1 has been recorded
AfterStep(k) == IF k > Len(workflow) THEN "synth" ELSE "exec"

\* the running step returns value: to _execute_workflow, which records it,
\* or to the caller of the agent method
StepReturns(value) ==
  IF entry = "process_travel_request"
    THEN /\ results' = RecordStep(results, workflow[step], value)
         /\ step' = step + 1
         /\ pc' = AfterStep(step + 1)
         /\ UNCHANGED outcome
    ELSE /\ outcome' = Returned(value)
         /\ pc' = "done"
         /\ UNCHANGED << results, step >>

\* the running step raises: to the except clause of _execute_workflow, or
\* to the caller of the agent method
StepRaises(type, text) ==
  IF entry = "process_travel_request"
    THEN /\ results' = WorkflowError(results, text)
         /\ pc' = "synth"
         /\ UNCHANGED << outcome, step >>
    ELSE /\ outcome' = Raised(type, text)
         /\ pc' = "done"
         /\ UNCHANGED << results, step >>

\* _execute_workflow reaches a data_aggregator step:
\* _coordinate_data_aggregator up to the await of asyncio.gather
StepDataAggregator ==
  /\ pc = "exec"
  /\ step <= Len(workflow)
  /\ workflow[step].agent = "data_aggregator"
  /\ step_log' = Append(step_log, workflow[step])
  /\ LET task == workflow[step].task
     IN  IF task = "gather_destination_data" \/ StartsWithSearch(task)
           THEN LET req == BuildTravelRequest(task, intent)
                IN  /\ travel_request' = req
                    /\ tasks' = PrepareTasks(req, AnalyzeDataNeeds(req))
                    /\ pc' = "gather"
                    /\ UNCHANGED << results, step, outcome >>
           ELSE /\ StepReturns([error |-> << Lit("Unknown data aggregator task: "),
                                             Lit(task) >>])
                /\ UNCHANGED << travel_request, tasks >>
  /\ UNCHANGED << startup, call_args, produced, lineage >>
  /\ UNCHANGED << strict_fields, current_itinerary, active_workflow, calls, entry,
                  user_message, intent, workflow, running, result_dict,
                  itin_args, itin_info, pre_itinerary, http_log >>

\* the event loop starts the next task: it runs up to requests.get, which
\* holds the loop's only thread until the answer is there
HttpSend(i) ==
  /\ pc \in { "gather", "itin" }
  /\ i \in DOMAIN tasks
  /\ tasks[i].state = "ready"
  /\ \A j \in 1..(i-1) : tasks[j].state # "ready"
  /\ running = 0
  /\ tasks' = [tasks EXCEPT ![i].state = "inflight", ![i].sent = 1]
  /\ running' = i
  /\ UNCHANGED << startup, call_args, produced, lineage >>
  /\ UNCHANGED << strict_fields, current_itinerary, active_workflow, calls, entry,
                  pc, user_message, intent, workflow, step, results,
                  travel_request, result_dict, itin_args, itin_info, outcome,
                  pre_itinerary, step_log, http_log >>

\* the search API answers (or the connection fails): _make_search_request
\* returns and execute runs to its end
HttpRespond(i, o) ==
  /\ i \in DOMAIN tasks
  /\ tasks[i].state = "inflight"
  /\ tasks' = [tasks EXCEPT ![i].state = "done",
                            ![i].sent = RequestsSent(o),
                            ![i].answer = o,
                            ![i].result = Execute(tasks[i].query, MakeSearchRequest(o))]
  /\ running' = 0
  /\ http_log' = http_log \o [k \in 1..RequestsSent(o) |->
                                [query |-> tasks[i].query, answer |-> o]]
  /\ UNCHANGED << startup, call_args, produced, lineage >>
  /\ UNCHANGED << strict_fields, current_itinerary, active_workflow, calls, entry,
                  pc, user_message, intent, workflow, step, results,
                  travel_request, result_dict, itin_args, itin_info, outcome,
                  pre_itinerary, step_log >>

\* asyncio.gather resolves: the rest of _execute_parallel_searches, then
\* _aggregate_results
GatherJoin ==
  /\ pc = "gather"
  /\ GatherDone(tasks)
  /\ result_dict' = ResultDict(tasks)
  /\ LET agg == AggregateResults(result_dict', travel_request)
     IN  IF agg.kind = "raised"
           THEN StepRaises(agg.type, agg.text)
           ELSE StepReturns(agg.value)
  /\ UNCHANGED << startup, call_args, produced, lineage >>
  /\ UNCHANGED << strict_fields, current_itinerary, active_workflow, calls, entry,
                  user_message, intent, workflow, travel_request, tasks, running,
                  itin_args, itin_info, pre_itinerary, step_log, http_log >>

\* create_itinerary up to its first await; re.search on a duration of None
\* raises TypeError
BeginCreate(args) ==
  IF args.duration = PyNone
    THEN /\ StepRaises("TypeError", << Lit(NoneReErrText) >>)
         /\ UNCHANGED << itin_args, itin_info, tasks >>
    ELSE /\ itin_args' = args
         /\ itin_info' = << >>
         /\ tasks' = << ItinerarySearch(1, args) >>
         /\ pc' = "itin"
         /\ UNCHANGED << results, step, outcome >>

\* _execute_workflow reaches an itinerary_agent step:
\* _coordinate_itinerary_agent up to the first await of create_itinerary
StepItineraryAgent ==
  /\ pc = "exec"
  /\ step <= Len(workflow)
  /\ workflow[step].agent = "itinerary_agent"
  /\ step_log' = Append(step_log, workflow[step])
  /\ LET task == workflow[step].task
     IN  IF task = "create_itinerary"
           THEN BeginCreate(CreateArgs(intent))
         ELSE IF DictTruthy(current_itinerary)
           THEN BeginCreate(ModifyArgs(current_itinerary,
                                       Get(intent, "modification_request",
                                           W_general_improvements)))
         ELSE /\ StepReturns([error |-> << Lit("No existing itinerary to modify") >>])
              /\ UNCHANGED << itin_args, itin_info, tasks >>
  /\ result_dict' = EmptyDict
  /\ UNCHANGED << startup, call_args, produced, lineage >>
  /\ UNCHANGED << strict_fields, current_itinerary, active_workflow, calls, entry,
                  user_message, intent, workflow, travel_request, running,
                  pre_itinerary, http_log >>

\* an awaited search of create_itinerary has returned or raised: the next
\* search is awaited, or the itinerary is built, stored and returned
\* (modify_itinerary then sets "modification" on the same dict object)
ItinCollect ==
  /\ pc = "itin"
  /\ tasks # << >>
  /\ tasks[1].state = "done"
  /\ LET r == tasks[1].result
     IN  IF r.kind = "exc"
           THEN /\ StepRaises("TypeError", r.text)
                /\ UNCHANGED << itin_info, tasks, current_itinerary, produced, lineage >>
         ELSE IF Len(itin_info) < 2
           THEN /\ itin_info' = Append(itin_info, r)
                /\ tasks' = << ItinerarySearch(Len(itin_info) + 2, itin_args) >>
                /\ UNCHANGED << current_itinerary, produced, lineage, pc, results, step, outcome >>
         ELSE LET built == BuildItinerary(itin_args, Append(itin_info, r))
                  final == IF "changes" \in DOMAIN itin_args
                             THEN Put(built, "modification", itin_args.changes)
                             ELSE built
              IN  /\ itin_info' = Append(itin_info, r)
                  /\ current_itinerary' = StoredItinerary(current_itinerary, final)
                  /\ produced' = final
                  /\ lineage' = IF "changes" \in DOMAIN itin_args
                                  THEN [lineage EXCEPT !.n = @ + 1]
                                  ELSE [k |-> Len(itin_args.interests), n |-> 0]
                  /\ StepReturns(final)
                  /\ UNCHANGED tasks
  /\ UNCHANGED << startup, call_args >>
  /\ UNCHANGED << strict_fields, active_workflow, calls, entry, user_message,
                  intent, workflow, travel_request, running, result_dict,
                  itin_args, pre_itinerary, step_log, http_log >>

\* _execute_workflow reaches an orchestrator step: _coordinate_self_task
StepOrchestrator ==
  /\ pc = "exec"
  /\ step <= Len(workflow)
  /\ workflow[step].agent = "orchestrator"
  /\ step_log' = Append(step_log, workflow[step])
  /\ StepReturns(CoordinateSelfTask(workflow[step].task, intent, results))
  /\ UNCHANGED << startup, call_args, produced, lineage >>
  /\ UNCHANGED << strict_fields, current_itinerary, active_workflow, calls, entry,
                  user_message, intent, workflow, travel_request, tasks, running,
                  result_dict, itin_args, itin_info, pre_itinerary, http_log >>

\* _synthesize_response, and the return of process_travel_request
Synthesize ==
  /\ pc = "synth"
  /\ outcome' = SynthesizeResponse(results, intent)
  /\ pc' = "done"
  /\ UNCHANGED << startup, call_args, produced, lineage >>
  /\ UNCHANGED << strict_fields, current_itinerary, active_workflow, calls, entry,
                  user_message, intent, workflow, step, results, travel_request,
                  tasks, running, result_dict, itin_args, itin_info,
                  pre_itinerary, step_log, http_log >>

\* the arguments create_itinerary is called with directly
DirectCreateArgs ==
  { [destination |-> V_Paris, duration |-> W_3_days, travelers |-> 2,
     interests |-> i, budget |-> B_mid_range] : i \in { << >>, << C_food >> } }

V_museums == << "m", "u", "s", "e", "u", "m", "s" >>

\* the change texts modify_itinerary is called with directly
ChangeTexts == { W_general_improvements, V_museums }

\* create_itinerary(...) is called on the itinerary agent
CallCreate(args) ==
  /\ BeginCallUpTo("create_itinerary", MaxItinCalls)
  /\ call_args' = args
  /\ user_message' = << >>
  /\ travel_request' = EmptyDict
  /\ tasks' = << >>
  /\ pc' = "create"

\* modify_itinerary(changes) is called on the itinerary agent
CallModify(changes) ==
  /\ BeginCallUpTo("modify_itinerary", MaxItinCalls)
  /\ call_args' = [changes |-> changes]
  /\ user_message' = << >>
  /\ travel_request' = EmptyDict
  /\ tasks' = << >>
  /\ pc' = "modify"

\* get_current_itinerary() is called on the itinerary agent
CallGetCurrent ==
  /\ BeginCallUpTo("get_current_itinerary", MaxItinCalls)
  /\ call_args' = EmptyDict
  /\ user_message' = << >>
  /\ travel_request' = EmptyDict
  /\ tasks' = << >>
  /\ pc' = "get"

\* create_itinerary, called directly, up to its first await
CreateItinerary ==
  /\ pc = "create"
  /\ BeginCreate(call_args)
  /\ UNCHANGED << startup, call_args, produced, lineage >>
  /\ UNCHANGED << strict_fields, current_itinerary, active_workflow, calls, entry,
                  user_message, intent, workflow, travel_request, running,
                  result_dict, pre_itinerary, step_log, http_log >>

\* modify_itinerary: a variant without the early return, which builds an
\* itinerary from the change text when nothing is stored
ModifyItineraryCreating ==
  /\ pc = "modify"
  /\ IF DictTruthy(current_itinerary)
       THEN BeginCreate(ModifyArgs(current_itinerary, call_args.changes))
       ELSE BeginCreate([destination |-> W_Unknown, duration |-> W_3_days,
                         travelers |-> 2, interests |-> << call_args.changes >>,
                         budget |-> B_mid_range, changes |-> call_args.changes])
  /\ UNCHANGED << startup, call_args, produced, lineage >>
  /\ UNCHANGED << strict_fields, current_itinerary, active_workflow, calls, entry,
                  user_message, intent, workflow, travel_request, running,
                  result_dict, pre_itinerary, step_log, http_log >>

\* modify_itinerary up to the first await of the create_itinerary it calls,
\* or its return when there is nothing to modify
ModifyItinerary ==
  /\ pc = "modify"
  /\ IF DictTruthy(current_itinerary)
       THEN BeginCreate(ModifyArgs(current_itinerary, call_args.changes))
       ELSE /\ StepReturns([error |-> << Lit("No itinerary exists to modify") >>])
            /\ UNCHANGED << itin_args, itin_info, tasks >>
  /\ UNCHANGED << startup, call_args, produced, lineage >>
  /\ UNCHANGED << strict_fields, current_itinerary, active_workflow, calls, entry,
                  user_message, intent, workflow, travel_request, running,
                  result_dict, pre_itinerary, step_log, http_log >>

\* get_current_itinerary: a variant without the check for an empty dict
CurrentItineraryOrErrorUnchecked(stored) == stored

\* get_current_itinerary: what it returns for the stored itinerary
CurrentItineraryOrError(stored) ==
  IF DictTruthy(stored)
    THEN stored
    ELSE [error |-> << Lit("No itinerary has been created yet") >>]

\* get_current_itinerary
GetCurrentItinerary ==
  /\ pc = "get"
  /\ StepReturns(CurrentItineraryOrError(current_itinerary))
  /\ UNCHANGED << startup, call_args, produced, lineage >>
  /\ UNCHANGED << strict_fields, current_itinerary, active_workflow, calls, entry,
                  user_message, intent, workflow, travel_request, tasks, running,
                  result_dict, itin_args, itin_info, pre_itinerary, step_log,
                  http_log >>

Next ==
  \/ \E msg \in UserMessages : CallProcess(msg)
  \/ \E req \in TravelRequests : CallAggregate(req)
  \/ ParseIntent
  \/ PlanWorkflow
  \/ StepDataAggregator
  \/ \E i \in 1..4 : HttpSend(i)
  \/ \E i \in 1..4, o \in Outcomes : HttpRespond(i, o)
  \/ GatherJoin
  \/ StepItineraryAgent
  \/ ItinCollect
  \/ StepOrchestrator
  \/ Synthesize

Spec == Init /\ [][Next]_vars

(***************************************************************************)
(* The itinerary agent alone: its methods called one after another.        *)
(***************************************************************************)
NextItinerary ==
  \/ \E args \in DirectCreateArgs : CallCreate(args)
  \/ \E changes \in ChangeTexts : CallModify(changes)
  \/ CallGetCurrent
  \/ CreateItinerary
  \/ ModifyItinerary
  \/ GetCurrentItinerary
  \/ HttpSend(1)
  \/ \E o \in Outcomes : HttpRespond(1, o)
  \/ ItinCollect

SpecItinerary == Init /\ [][NextItinerary]_vars

(***************************************************************************)
(* _parse_travel_intent applied to one message.                            *)
(***************************************************************************)
InitParse ==
  /\ Started
  /\ strict_fields = TRUE
  /\ current_itinerary = EmptyDict
  /\ active_workflow = << >>
  /\ calls = 1
  /\ entry = "_parse_travel_intent"
  /\ pc = "parse"
  /\ user_message \in ParseMessages
  /\ intent = InitialIntent
  /\ workflow = << >>
  /\ step = 1
  /\ results = InitialResults
  /\ travel_request = EmptyDict
  /\ tasks = << >>
  /\ running = 0
  /\ result_dict = EmptyDict
  /\ itin_args = EmptyDict
  /\ itin_info = << >>
  /\ outcome = NoOutcome
  /\ pre_itinerary = EmptyDict
  /\ step_log = << >>
  /\ http_log = << >>
  /\ call_args = EmptyDict
  /\ produced = << >>
  /\ lineage = [k |-> 0, n |-> 0]

NextParse == ParseIntent

SpecParse == InitParse /\ [][NextParse]_vars

(***************************************************************************)
(* Start-up of a process: run.py, the import of agent.py, or               *)
(* test_configuration of test_setup.py.                                    *)
(***************************************************************************)
Scripts == { "run.py", "agent.py", "test_setup.py" }

\* the environments a process is started in
Environs ==
  { env \in [EnvNames -> { PyNone, << >> } \cup { EnvKey(n) : n \in EnvNames }] :
      /\ \A n \in EnvNames : Truthy(env[n]) => env[n] = EnvKey(n)
      /\ env["GOOGLE_GENAI_API_KEY"] # << >> }

\* the .env files: each variable is defined with a key or not at all
DotenvFiles ==
  { file \in [EnvNames -> { PyNone } \cup { FileKey(n) : n \in EnvNames }] :
      /\ \A n \in EnvNames : file[n] # PyNone => file[n] = FileKey(n)
      /\ file["GOOGLE_GENAI_API_KEY"] = PyNone }

InitStartup ==
  /\ script \in Scripts
  /\ spc = "begin"
  /\ environ \in Environs
  /\ dotenv \in DotenvFiles
  /\ Config = NotLoaded
  /\ validated = NoOutcome
  /\ created_agent = NoOutcome
  /\ start_log = << >>
  /\ exit_code = NoneInt
  /\ strict_fields = TRUE
  /\ current_itinerary = EmptyDict
  /\ active_workflow = << >>
  /\ calls = 0
  /\ entry = "none"
  /\ pc = "idle"
  /\ user_message = << >>
  /\ intent = InitialIntent
  /\ workflow = << >>
  /\ step = 1
  /\ results = InitialResults
  /\ travel_request = EmptyDict
  /\ tasks = << >>
  /\ running = 0
  /\ result_dict = EmptyDict
  /\ itin_args = EmptyDict
  /\ itin_info = << >>
  /\ outcome = NoOutcome
  /\ pre_itinerary = EmptyDict
  /\ step_log = << >>
  /\ http_log = << >>
  /\ call_args = EmptyDict
  /\ produced = << >>
  /\ lineage = [k |-> 0, n |-> 0]

\* sys.exit(code), or an exception that nothing catches (code 1)
Exit(code) ==
  /\ spc' = "exited"
  /\ exit_code' = code

\* run.py main: a variant that goes on after a failed check
CheckContinuing(name, passed, next) ==
  /\ script = "run.py"
  /\ start_log' = Append(start_log, [check |-> name, passed |-> passed])
  /\ spc' = next
  /\ UNCHANGED exit_code
  /\ UNCHANGED << script, environ, dotenv, Config, validated, created_agent >>
  /\ UNCHANGED orchestration

\* run.py main: one "if not check(): sys.exit(1)"
Check(name, passed, next) ==
  /\ script = "run.py"
  /\ start_log' = Append(start_log, [check |-> name, passed |-> passed])
  /\ IF passed
       THEN /\ spc' = next
            /\ UNCHANGED exit_code
       ELSE Exit(1)
  /\ UNCHANGED << script, environ, dotenv, Config, validated, created_agent >>
  /\ UNCHANGED orchestration

\* check_python_version: sys.version_info is at least (3, 8) or not
CheckPythonVersion(ok) ==
  /\ spc = "begin"
  /\ Check("python_version", ok, "dependencies")

DependencyStates == { "installed", "pip_installed", "pip_failed" }

\* check_dependencies: the packages are there, or pip installs them, or pip
\* fails
CheckDependencies(d) ==
  /\ spc = "dependencies"
  /\ Check("dependencies", d # "pip_failed", "structure")

\* check_adk_structure: the project files exist or not
CheckAdkStructure(ok) ==
  /\ spc = "structure"
  /\ Check("structure", ok, "api_keys")

\* check_api_keys
ApiKeysSet(env) ==
  Truthy(GetEnv(env, "SERPAPI_KEY")) /\ Truthy(GetEnv(env, "GOOGLE_AI_API_KEY"))

CheckApiKeys ==
  /\ spc = "api_keys"
  /\ Check("api_keys", ApiKeysSet(environ), "choose")

\* what input() gives: a line, or end of input (EOFError)
Choices == { "", "1", "2", "3", "EOF" }

\* the program main starts for a choice
Program(choice) ==
  IF choice = "3" THEN "test_adk_agent.py"
  ELSE IF choice = "2" THEN "adk run"
  ELSE "adk web"

\* run.py main after the checks: input(), then subprocess.run; EOFError
\* leaves main, FileNotFoundError (no adk command) is caught
StartAgent(choice, found) ==
  /\ script = "run.py"
  /\ spc = "choose"
  /\ IF choice = "EOF"
       THEN /\ Exit(1)
            /\ UNCHANGED start_log
       ELSE /\ Exit(0)
            /\ start_log' = IF choice = "3" \/ found
                              THEN Append(start_log, [start |-> Program(choice)])
                              ELSE start_log
  /\ UNCHANGED << script, environ, dotenv, Config, validated, created_agent >>
  /\ UNCHANGED orchestration

\* config/settings.py is imported: load_dotenv, the copy of the Google key,
\* the body of class Config
ImportSettings ==
  /\ script \in { "agent.py", "test_setup.py" }
  /\ spc = "begin"
  /\ environ' = MirrorGoogleKey(LoadDotenv(environ, dotenv))
  /\ Config' = ClassConfig(environ')
  /\ spc' = "loaded"
  /\ UNCHANGED << script, dotenv, validated, created_agent, start_log, exit_code >>
  /\ UNCHANGED orchestration

\* agent.py: agent = create_agent(); the ValueError it re-raises ends the
\* import
CreateAgent ==
  /\ script = "agent.py"
  /\ spc = "loaded"
  /\ validated' = Validate(Config)
  /\ created_agent' = CreateAgentOutcome(Config)
  /\ IF created_agent'.kind = "raised"
       THEN Exit(1)
       ELSE /\ spc' = "ready"
            /\ UNCHANGED exit_code
  /\ UNCHANGED << script, environ, dotenv, Config, start_log >>
  /\ UNCHANGED orchestration

\* test_setup.py: test_configuration, which calls Config.validate() when
\* both keys are in the environment and catches what it raises
TestConfiguration ==
  /\ script = "test_setup.py"
  /\ spc = "loaded"
  /\ validated' = IF ApiKeysSet(environ) THEN Validate(Config) ELSE NoOutcome
  /\ start_log' = Append(start_log,
                         [test   |-> "configuration",
                          passed |-> validated' = Returned(TRUE)])
  /\ spc' = "tested"
  /\ UNCHANGED << script, environ, dotenv, Config, created_agent, exit_code >>
  /\ UNCHANGED orchestration

NextStartup ==
  \/ \E ok \in BOOLEAN : CheckPythonVersion(ok)
  \/ \E d \in DependencyStates : CheckDependencies(d)
  \/ \E ok \in BOOLEAN : CheckAdkStructure(ok)
  \/ CheckApiKeys
  \/ \E choice \in Choices, found \in BOOLEAN : StartAgent(choice, found)
  \/ ImportSettings
  \/ CreateAgent
  \/ TestConfiguration

SpecStartup == InitStartup /\ [][NextStartup]_vars

(***************************************************************************)
(* Properties.                                                             *)
(***************************************************************************)
Done == pc = "done"

InProcess == entry = "process_travel_request"

\* _execute_parallel_searches has returned and its tasks are still at hand
Joined == DOMAIN result_dict # {}

TaskNames == { tasks[i].name : i \in DOMAIN tasks }

\* text occurs in one of the lines
ContainsText(lines, text) ==
  \E l \in DOMAIN lines :
    \E k \in 0..Len(lines[l]) :
      /\ k + Len(text) <= Len(lines[l])
      /\ \A j \in 1..Len(text) : lines[l][k + j] = text[j]

IsPrefix(s, t) == Len(s) <= Len(t) /\ \A i \in DOMAIN s : s[i] = t[i]

\* C1: a search whose network call failed is stored as an error entry that
\* is not marked success, and only searches whose network call succeeded are
\* marked success.
C1_FailedCallIsErrorEntry ==
  Joined =>
    \A i \in DOMAIN tasks :
      LET e == result_dict[tasks[i].name]
      IN  /\ tasks[i].answer = "neterr" =>
               /\ "error" \in DOMAIN e
               /\ "success" \notin DOMAIN e
          /\ "success" \in DOMAIN e => tasks[i].answer = "ok"

\* C2: the text process_travel_request returns contains the message of
\* every network failure of the call and the error text of every workflow
\* step that returned an error dict.
C2_ErrorsReachResponse ==
  (Done /\ InProcess /\ outcome.kind = "returned") =>
    /\ \A a \in DOMAIN http_log :
         http_log[a].answer = "neterr" =>
           ContainsText(outcome.value, << Lit(NetErrText) >>)
    /\ \A k \in DOMAIN results.workflow_results :
         "error" \in DOMAIN results.workflow_results[k].result =>
           ContainsText(outcome.value, results.workflow_results[k].result.error)

\* C3: while the request of an earlier search of the fan-out is in flight,
\* the request of a later search that was issued can be sent.
C3_LaterSearchCanStart ==
  \A i, j \in DOMAIN tasks :
    (pc = "gather" /\ i < j /\ tasks[i].state = "inflight" /\ tasks[j].state = "ready")
      => ENABLED HttpSend(j)

\* C4: _execute_parallel_searches returns only when every search it issued
\* has finished, and its dict has exactly one entry per issued search and
\* none for any other search.
C4_FanOutJoined ==
  Joined =>
    /\ \A i \in DOMAIN tasks : tasks[i].state = "done"
    /\ DOMAIN result_dict = TaskNames
    /\ Cardinality(DOMAIN result_dict) = Len(tasks)
    /\ TaskNames = { "activities", "destination_info" }
                     \cup { n \in { "flights" } :
                              /\ Truthy(Get(travel_request, "origin", PyNone))
                              /\ Truthy(Get(travel_request, "departure_date", PyNone)) }
                     \cup { n \in { "hotels" } :
                              /\ Truthy(Get(travel_request, "check_in", PyNone))
                              /\ Truthy(Get(travel_request, "check_out", PyNone)) }

C4_Witness ==
  /\ Joined
  /\ Done
  /\ Cardinality(DOMAIN result_dict) = 4
  /\ \E i \in DOMAIN tasks : tasks[i].answer = "neterr"

\* C5: when a search of the fan-out fails, every other issued search has
\* still sent its request, run to its end, and has the result of its own
\* answer stored under its own name.
C5_FailureLeavesOthersAlone ==
  Joined =>
    \A i, j \in DOMAIN tasks :
      (i # j /\ tasks[i].answer \in { "neterr", "badshape" }) =>
        LET e == result_dict[tasks[j].name]
        IN  /\ tasks[j].state = "done"
            /\ tasks[j].sent >= 1
            /\ tasks[j].answer \in Outcomes
            /\ IF tasks[j].answer = "badshape"
                 THEN e = [error |-> << Lit(ShapeErrText) >>]
                 ELSE /\ "data" \in DOMAIN e
                      /\ e.data = tasks[j].result
                      /\ e.data.kind = "str"
                      /\ e.data.text[1] =
                           Lit(IF tasks[j].answer = "ok"
                                 THEN FoundPrefix(tasks[j].name)
                                 ELSE ErrorPrefix(tasks[j].name))

C5_Witness ==
  /\ Joined
  /\ \E i, j \in DOMAIN tasks :
       /\ i < j
       /\ tasks[i].answer = "badshape"
       /\ tasks[j].answer = "ok"
       /\ "success" \in DOMAIN result_dict[tasks[j].name]
  /\ \E i, j \in DOMAIN tasks :
       /\ i < j
       /\ tasks[i].answer = "neterr"
       /\ tasks[j].answer = "badshape"

\* C6: a search that has started has sent exactly one HTTP request, however
\* it was answered, and no request that met a network failure is sent again
\* later in the same call.
C6_NoRetries ==
  /\ \A i \in DOMAIN tasks :
       tasks[i].sent = IF tasks[i].state = "ready" THEN 0 ELSE 1
  /\ Len(http_log) >= Cardinality({ i \in DOMAIN tasks : tasks[i].state = "done" })
  /\ \A a, b \in DOMAIN http_log :
       (a < b /\ http_log[a].answer = "neterr") =>
         http_log[b].query # http_log[a].query

C6_Witness ==
  /\ Done
  /\ InProcess
  /\ Len(http_log) = 2
  /\ http_log[1].answer = "neterr"
  /\ \A i \in DOMAIN tasks : tasks[i].sent = 1

FullPlan ==
  << Step("data_aggregator", "gather_destination_data"),
     Step("itinerary_agent", "create_itinerary"),
     Step("orchestrator", "synthesize_plan") >>

\* C7: for a plan_trip intent the workflow is the three steps
\* data_aggregator, itinerary_agent, orchestrator; the steps start in that
\* order, each after the one before it has returned, and the result of
\* synthesize_plan holds the outputs of the two steps before it.
C7_PlanTripSteps ==
  (InProcess /\ intent.type = "plan_trip" /\ pc \notin { "parse", "plan" }) =>
    LET wr == results.workflow_results
    IN  /\ workflow = FullPlan
        /\ IsPrefix(step_log, FullPlan)
        /\ Len(wr) <= Len(step_log)
        /\ Len(step_log) <= Len(wr) + 1
        /\ \A k \in DOMAIN wr :
             wr[k].agent = FullPlan[k].agent /\ wr[k].task = FullPlan[k].task
        /\ Len(wr) = 3 =>
             /\ DictTruthy(wr[3].result.itinerary)
             /\ wr[3].result.itinerary = wr[2].result
             /\ wr[3].result.supporting_data = wr[1].result

C7_Witness ==
  /\ InProcess
  /\ intent.type = "plan_trip"
  /\ Len(results.workflow_results) = 3
  /\ results.status = "success"

\* C8 as stated: when process_travel_request has returned, the stored
\* itinerary is what it was before the call.
C8_StateAsBefore ==
  (Done /\ InProcess /\ outcome.kind = "returned") =>
    current_itinerary = pre_itinerary

\* the workflow steps of this call in which create_itinerary ran to its end
Created ==
  { k \in DOMAIN results.workflow_results :
      /\ results.workflow_results[k].agent = "itinerary_agent"
      /\ "error" \notin DOMAIN results.workflow_results[k].result }

\* C8 amended: when process_travel_request has ended, current_itinerary is
\* what it was before the call unless a create_itinerary ran to its end
\* during the call, and then it is the itinerary that step returned; where
\* undeclared attributes are accepted, active_workflow holds the steps
\* planned for this request.
C8_StateAfterRequest ==
  (Done /\ InProcess) =>
    /\ IF Created # {}
         THEN \E k \in Created :
                /\ \A j \in Created : j <= k
                /\ current_itinerary = results.workflow_results[k].result
         ELSE current_itinerary = pre_itinerary
    /\ ~strict_fields => active_workflow = workflow
    /\ strict_fields => active_workflow = << >>

C8_Witness ==
  /\ Done
  /\ InProcess
  /\ outcome.kind = "returned"
  /\ intent.type = "modify_plan"
  /\ DictTruthy(pre_itinerary)
  /\ current_itinerary # pre_itinerary
  /\ "modification" \in DOMAIN current_itinerary

\* C9: process_travel_request ends by returning a non-empty text.
C9_AlwaysReturnsText ==
  (Done /\ InProcess) =>
    /\ outcome.kind = "returned"
    /\ outcome.value # << >>

V_Tokyo == << "T", "o", "k", "y", "o" >>

\* C10: destination is None exactly when no known name occurs in the
\* lower-cased message, and otherwise it is the title-cased first name of
\* the list (in list order, not in order of appearance) that occurs.
C10_DestinationFirstInList ==
  (Done /\ entry = "_parse_travel_intent") =>
    LET m    == Lower(user_message)
        hits == { i \in DOMAIN destinations : In(destinations[i], m) }
    IN  /\ (intent.destination = PyNone) <=> (hits = {})
        /\ hits # {} =>
             \E i \in hits :
               /\ \A j \in hits : i <= j
               /\ Len(intent.destination) = Len(destinations[i])
               /\ Lower(intent.destination) = destinations[i]
               /\ IsUpper(intent.destination[1])
        /\ In(F_Paris, user_message) /\ In(F_TOKYO, user_message)
             => intent.destination = V_Tokyo
        /\ In(F_ukraine, user_message) /\ hits = { 10 }
             => intent.destination = << "U", "k" >>

C10_Witness ==
  /\ Done
  /\ entry = "_parse_travel_intent"
  /\ user_message = Join(<< F_Paris, F_TOKYO >>)
  /\ intent.destination = V_Tokyo

IntentTypes ==
  { "plan_trip", "search_flights", "search_hotels", "search_activities",
    "general_search", "modify_plan", "general_inquiry" }

\* C11: every message gets exactly one of the seven types, never "unknown":
\* plan_trip when a plan keyword occurs, else one of the search types when a
\* search keyword occurs, else modify_plan when a modify keyword occurs, else
\* general_inquiry; modification is true exactly for modify_plan.
C11_TypeByPriority ==
  (Done /\ entry = "_parse_travel_intent") =>
    LET m == Lower(user_message)
        p == AnyIn(plan_words, m)
        s == AnyIn(search_words, m)
        c == AnyIn(modify_words, m)
    IN  /\ intent.type \in IntentTypes
        /\ p => intent.type = "plan_trip"
        /\ (~p /\ s) =>
             intent.type = IF In(F_flight, m) THEN "search_flights"
                           ELSE IF In(F_hotel, m) THEN "search_hotels"
                           ELSE IF In(F_things_to_do, m) THEN "search_activities"
                           ELSE "general_search"
        /\ (~p /\ ~s /\ c) => intent.type = "modify_plan"
        /\ (~p /\ ~s /\ ~c) => intent.type = "general_inquiry"
        /\ intent.modification <=> (intent.type = "modify_plan")
        /\ user_message = Join(<< F_find, F_Plan >>) => intent.type = "plan_trip"
        /\ user_message = Join(<< F_change, F_find >>) => intent.type = "general_search"

C11_Witness ==
  /\ Done
  /\ entry = "_parse_travel_intent"
  /\ user_message = Join(<< F_find, F_Plan >>)
  /\ intent.type = "plan_trip"
  /\ ~intent.modification

\* Config.validate() has been called in this process
ValidateCalled == validated # NoOutcome

\* C12: when SERPAPI_KEY and GOOGLE_AI_API_KEY are both set to a key in the
\* environment, Config.validate() returns True and does not raise, and
\* GOOGLE_API_KEY holds a key (its own, or that of GOOGLE_AI_API_KEY).
C12_ValidateWithBothKeys ==
  (Config # NotLoaded /\ ApiKeysSet(environ)) =>
    /\ Validate(Config) = Returned(TRUE)
    /\ ValidateCalled => validated = Returned(TRUE)
    /\ Truthy(Config.GOOGLE_API_KEY)
    /\ Config.GOOGLE_API_KEY \in { EnvKey("GOOGLE_API_KEY"), FileKey("GOOGLE_API_KEY"),
                                   Config.GOOGLE_AI_API_KEY }

C12_Witness ==
  /\ script = "test_setup.py"
  /\ spc = "tested"
  /\ validated = Returned(TRUE)
  /\ Config.OPENAI_API_KEY = PyNone
  /\ Config.GOOGLE_API_KEY = EnvKey("GOOGLE_AI_API_KEY")
  /\ dotenv["GOOGLE_API_KEY"] = PyNone

\* the text names the requirement
Names(text, requirement) == \E i \in DOMAIN text : text[i] = Lit(requirement)

\* C13: Config.validate() raises ValueError exactly when SERPAPI_KEY is
\* missing or GOOGLE_API_KEY and OPENAI_API_KEY are both missing, its message
\* names the missing requirements and no other, and create_agent returns the
\* root agent exactly when validate returned and raises validate's
\* ValueError otherwise.
C13_ValidateRaisesOnMissing ==
  ValidateCalled =>
    LET noSerp == ~Truthy(Config.SERPAPI_KEY)
        noLlm  == ~Truthy(Config.GOOGLE_API_KEY) /\ ~Truthy(Config.OPENAI_API_KEY)
    IN  /\ validated.kind \in { "returned", "raised" }
        /\ (validated.kind = "raised") <=> (noSerp \/ noLlm)
        /\ validated.kind = "returned" => validated.value = TRUE
        /\ validated.kind = "raised" =>
             /\ validated.type = "ValueError"
             /\ Names(validated.text, "SERPAPI_KEY") <=> noSerp
             /\ Names(validated.text, "GOOGLE_API_KEY or OPENAI_API_KEY") <=> noLlm
             /\ Len(validated.text) = IF noSerp /\ noLlm THEN 4 ELSE 2
        /\ script = "agent.py" =>
             /\ (created_agent = Returned("root_agent")) <=> (validated.kind = "returned")
             /\ validated.kind = "raised" => created_agent = validated
             /\ (spc = "ready") <=> (validated.kind = "returned")

C13_Witness ==
  /\ script = "agent.py"
  /\ spc = "exited"
  /\ created_agent.kind = "raised"
  /\ Truthy(Config.SERPAPI_KEY)
  /\ Truthy(Config.GOOGLE_AI_API_KEY) = FALSE
  /\ Names(created_agent.text, "GOOGLE_API_KEY or OPENAI_API_KEY")
  /\ ~Names(created_agent.text, "SERPAPI_KEY")

RunChecks == << "python_version", "dependencies", "structure", "api_keys" >>

\* C14: run.py makes its checks in the order Python version, dependencies,
\* project structure, API keys; a program is started only after the four
\* checks have passed; a failed check is the last thing the process does and
\* it ends with exit code 1.
C14_ChecksBeforeStart ==
  script = "run.py" =>
    /\ Len(start_log) <= Len(RunChecks) + 1
    /\ \A k \in DOMAIN start_log :
         IF k <= Len(RunChecks)
           THEN /\ DOMAIN start_log[k] = { "check", "passed" }
                /\ start_log[k].check = RunChecks[k]
                /\ ~start_log[k].passed =>
                     /\ k = Len(start_log)
                     /\ spc = "exited"
                     /\ exit_code = 1
           ELSE /\ DOMAIN start_log[k] = { "start" }
                /\ start_log[k].start \in { "adk web", "adk run", "test_adk_agent.py" }
                /\ \A j \in 1..Len(RunChecks) : start_log[j].passed
    /\ spc = "choose" => Len(start_log) = Len(RunChecks)

C14_Witness ==
  /\ script = "run.py"
  /\ Len(start_log) = 5
  /\ start_log[5] = [start |-> "adk web"]
  /\ exit_code = 0

\* C15: when every search aggregate_travel_data issued has succeeded, it
\* returns a dict whose data has one entry per issued search and whose
\* recommendations are those of the issued searches, in the order flights,
\* hotels, activities, destination_info.
C15_AllSucceedReturnsAggregate ==
  (/\ Done
   /\ entry = "aggregate_travel_data"
   /\ \A i \in DOMAIN tasks : tasks[i].answer = "ok") =>
    /\ outcome.kind = "returned"
    /\ DOMAIN outcome.value.data = TaskNames
    /\ outcome.value.recommendations =
         LET issued == SelectSeq(RecommendationKeys, LAMBDA k : k \in TaskNames)
         IN  [i \in DOMAIN issued |-> Lit(RecommendationText(issued[i]))]

\* the search named n is among those issued
Issued(n) == \E i \in DOMAIN tasks : tasks[i].name = n

\* C16: a request to the aggregator always issues the activity search and
\* the destination-info search; it issues the flight search exactly when
\* origin and departure_date are both non-empty and the hotel search exactly
\* when check_in and check_out are both non-empty.
C16_SearchesIssuedByNeed ==
  pc = "gather" =>
    /\ Issued("activities")
    /\ Issued("destination_info")
    /\ Issued("flights") <=>
         /\ "origin" \in DOMAIN travel_request
         /\ travel_request.origin \notin { PyNone, << >> }
         /\ "departure_date" \in DOMAIN travel_request
         /\ travel_request.departure_date \notin { PyNone, << >> }
    /\ Issued("hotels") <=>
         /\ "check_in" \in DOMAIN travel_request
         /\ travel_request.check_in \notin { PyNone, << >> }
         /\ "check_out" \in DOMAIN travel_request
         /\ travel_request.check_out \notin { PyNone, << >> }
    /\ \A i, j \in DOMAIN tasks : tasks[i].name = tasks[j].name => i = j

C16_Witness ==
  /\ pc = "gather"
  /\ entry = "aggregate_travel_data"
  /\ "origin" \in DOMAIN travel_request
  /\ travel_request.origin = << >>
  /\ Issued("hotels")
  /\ ~Issued("flights")
  /\ Len(tasks) = 3

\* the search a specific search intent asks for
WantedSearch(type) ==
  CASE type = "search_flights"    -> "flights"
    [] type = "search_hotels"     -> "hotels"
    [] type = "search_activities" -> "activities"

\* C17: when the workflow step of a search_flights, search_hotels or
\* search_activities request has run, the flight, hotel or activity search
\* has been issued and has sent its request in this call.
C17_MatchingSearchIssued ==
  (/\ Done
   /\ InProcess
   /\ intent.type \in { "search_flights", "search_hotels", "search_activities" }
   /\ step_log # << >>) =>
    \E i \in DOMAIN tasks :
      /\ tasks[i].name = WantedSearch(intent.type)
      /\ tasks[i].sent = 1

\* C18: the general_search step of a general_inquiry or general_search
\* request issues the destination-info search, and its recorded result is
\* not an error dict.
C18_GeneralSearchAggregates ==
  (/\ Done
   /\ InProcess
   /\ intent.type \in { "general_inquiry", "general_search" }
   /\ step_log # << >>) =>
    /\ step_log = << Step("data_aggregator", "general_search") >>
    /\ Issued("destination_info")
    /\ \A k \in DOMAIN results.workflow_results :
         "error" \notin DOMAIN results.workflow_results[k].result

\* the texts of the exceptions a workflow step can raise
StepErrorTexts ==
  { << Lit(StrGetErrText) >>, << Lit(NoneReErrText) >>, << Lit(ShapeErrText) >> }

\* C19: when _execute_workflow has returned, nothing was raised to its
\* caller; the recorded entries are those of the first steps of the workflow,
\* in step order, with their outputs; with status "success" every step is
\* recorded; with status "error" the text of the exception is under "error",
\* the step that raised is the last one started and the entries of the steps
\* before it are kept.
C19_WorkflowErrorsRecorded ==
  (InProcess /\ pc = "synth") =>
    LET wr == results.workflow_results
    IN  /\ outcome = NoOutcome
        /\ results.status \in { "success", "error" }
        /\ Len(wr) <= Len(workflow)
        /\ \A k \in DOMAIN wr :
             /\ wr[k].agent = workflow[k].agent
             /\ wr[k].task = workflow[k].task
             /\ results.agent_outputs[wr[k].agent] = wr[k].result
        /\ DOMAIN results.agent_outputs = { wr[k].agent : k \in DOMAIN wr }
        /\ results.status = "success" =>
             /\ Len(wr) = Len(workflow)
             /\ step_log = workflow
             /\ "error" \notin DOMAIN results
        /\ results.status = "error" =>
             /\ "error" \in DOMAIN results
             /\ results.error \in StepErrorTexts
             /\ Len(wr) < Len(workflow)
             /\ Len(step_log) = Len(wr) + 1
             /\ IsPrefix(step_log, workflow)

C19_Witness ==
  /\ InProcess
  /\ pc = "synth"
  /\ results.status = "error"
  /\ Len(results.workflow_results) = 1
  /\ Len(workflow) = 3
  /\ "data_aggregator" \in DOMAIN results.agent_outputs

\* C20: a call that got past _plan_agent_workflow ends with a response: for
\* status "error" the apology line with the recorded error text and nothing
\* else, for status "success" lines of which the last is the closing line
\* and none is the apology.
C20_ApologyOrClosing ==
  (Done /\ InProcess /\ ~strict_fields) =>
    /\ outcome.kind = "returned"
    /\ results.status = "error" =>
         outcome.value = << ApologyLine(results.error) >>
    /\ results.status = "success" =>
         /\ outcome.value # << >>
         /\ outcome.value[Len(outcome.value)] = ClosingLine
         /\ \A l \in DOMAIN outcome.value :
              outcome.value[l][1] # ApologyLine(<< >>)[1]

UpdatedLine == << Lit("I've updated your travel plan based on your request!") >>

\* C21: a response holds the line "I've updated your travel plan based on
\* your request!" only if modify_itinerary returned a modified itinerary in
\* this call; when there was no itinerary to modify the response holds the
\* text of the error instead.
C21_UpdatedOnlyAfterModify ==
  (Done /\ InProcess /\ outcome.kind = "returned") =>
    /\ (\E l \in DOMAIN outcome.value : outcome.value[l] = UpdatedLine) =>
         \E k \in Created :
           "modification" \in DOMAIN results.workflow_results[k].result
    /\ (/\ intent.type = "modify_plan"
        /\ ~DictTruthy(pre_itinerary)) =>
         ContainsText(outcome.value, << Lit("No existing itinerary to modify") >>)

CreateStep == Step("itinerary_agent", "create_itinerary")

\* C22: once the create_itinerary step of a request has started,
\* create_itinerary has been called with duration "3 days", 2 travellers and
\* destination "Unknown" in place of what the message does not state; the
\* response of a request without a recognised destination speaks of "your
\* destination".
C22_FallbacksUsed ==
  InProcess =>
    /\ (\E k \in DOMAIN step_log : step_log[k] = CreateStep) =>
         /\ DictTruthy(itin_args)
         /\ itin_args.duration =
              IF intent.duration = PyNone THEN W_3_days ELSE intent.duration
         /\ itin_args.travelers =
              IF intent.travelers = NoneInt THEN 2 ELSE intent.travelers
         /\ itin_args.destination =
              IF intent.destination = PyNone THEN W_Unknown ELSE intent.destination
    /\ (/\ Done
        /\ outcome.kind = "returned"
        /\ results.status = "success"
        /\ intent.type # "modify_plan"
        /\ intent.destination = PyNone) =>
         ContainsText(outcome.value, << Chars(W_your_destination) >>)

InCall(name) == entry = name

\* C23: the stored itinerary is a single current value: it is the itinerary
\* the most recently completed create_itinerary or modify_itinerary
\* produced and is empty before the first one has completed;
\* get_current_itinerary returns that itinerary, and the error dict
\* 'No itinerary has been created yet' while there is none.
C23_SingleCurrentValue ==
  /\ current_itinerary = produced
  /\ (Done /\ InCall("get_current_itinerary")) =>
       outcome = Returned(IF DOMAIN produced # {}
                            THEN produced
                            ELSE [error |-> << Lit("No itinerary has been created yet") >>])

\* get_current_itinerary has returned an itinerary that a modify_itinerary
\* produced
C23_Witness ==
  /\ Done
  /\ InCall("get_current_itinerary")
  /\ outcome.kind = "returned"
  /\ "modification" \in DOMAIN outcome.value
  /\ lineage.n > 0

\* get_current_itinerary has returned the error dict after a
\* create_itinerary that raised
C23_WitnessNone ==
  /\ Done
  /\ InCall("get_current_itinerary")
  /\ calls > 1
  /\ "error" \in DOMAIN outcome.value

\* C24: modify_itinerary called while no itinerary is stored sends no
\* search, leaves the stored itinerary empty and returns the error dict
\* 'No itinerary exists to modify'.
C24_ModifyWithoutItinerary ==
  (InCall("modify_itinerary") /\ DOMAIN pre_itinerary = {}) =>
    /\ tasks = << >>
    /\ http_log = << >>
    /\ current_itinerary = EmptyDict
    /\ Done => outcome = Returned([error |-> << Lit("No itinerary exists to modify") >>])

\* modify_itinerary has returned on an agent without an itinerary
C24_Witness ==
  /\ Done
  /\ InCall("modify_itinerary")
  /\ DOMAIN pre_itinerary = {}
  /\ outcome.kind = "returned"

\* a modify_itinerary that found an itinerary has returned
ModifiedExisting ==
  /\ Done
  /\ InCall("modify_itinerary")
  /\ DOMAIN pre_itinerary # {}
  /\ outcome.kind = "returned"

\* C25: a modify_itinerary that returns on an existing itinerary stores
\* what it returns: an itinerary with the destination, duration, travelers
\* and budget of the previous one, the previous interests followed by the
\* change text, and the change text under 'modification'; the stored
\* itinerary of n modifications after a creation with k interests has
\* k + n interests.
C25_ModifyAppendsInterest ==
  /\ ModifiedExisting =>
       LET m == outcome.value
           changes == call_args.changes
       IN  /\ current_itinerary = m
           /\ m.destination = pre_itinerary.destination
           /\ m.duration = pre_itinerary.duration
           /\ m.travelers = pre_itinerary.travelers
           /\ m.budget = pre_itinerary.budget
           /\ m.interests = pre_itinerary.interests \o << changes >>
           /\ "modification" \in DOMAIN m
           /\ m.modification = changes
  /\ DOMAIN current_itinerary # {} =>
       Len(current_itinerary.interests) = lineage.k + lineage.n

\* the second modification in a row of an itinerary created with one
\* interest has returned
C25_Witness ==
  /\ ModifiedExisting
  /\ lineage.k = 1
  /\ lineage.n = 2
  /\ Len(current_itinerary.interests) = 3

\* a modification of an itinerary created without interests has returned
C25_WitnessNoInterests ==
  /\ ModifiedExisting
  /\ lineage.k = 0
  /\ lineage.n = 1

====
